---- MODULE Spec2Model ----
(***************************************************************************)
(* Azure DevOps MCP HTTP server: the authentication gateway               *)
(* (src/src/auth.ts, AuthService), the Express pipeline in front of the   *)
(* /mcp routes (src/src/http-server.ts) and the OAuth authorization-code  *)
(* exchange (AuthService.initiateOAuthFlow / handleOAuthCallback).        *)
(***************************************************************************)
EXTENDS Integers, Sequences, FiniteSets, TLC

\* ------------------------------------------------------------------ bounds
\* Number of /mcp requests the model follows through the pipeline.
MaxReq == 1
\* The wall clock (seconds) runs from 0 to MaxClock.
MaxClock == 1

\* ------------------------------------------------------------- JS values
\* A JavaScript string is a sequence of symbols: a symbol is one reserved
\* character (a quote, a backslash, a percent sign, ...) or a run of
\* unreserved characters.  Str(x) is the string made of the one run x and
\* << >> the empty string.
Str(x) == << x >>

\* JavaScript's undefined: an absent header, claim or configuration entry.
Undefined == << "undefined" >>

\* JavaScript truthiness of a string-or-undefined value (!x is its negation).
Truthy(x) == x # Undefined /\ x # << >>

\* a || b on string-or-undefined values.
OrElse(a, b) == IF Truthy(a) THEN a ELSE b

\* ---------------------------------------------------------- configuration
\* AuthConfig, the part AuthService reads.
AuthConfigs ==
  [ patEnabled : BOOLEAN, oauthEnabled : BOOLEAN,
    jwtSecret : { Undefined, Str("s1") },
    azureClientId : { Undefined, Str("client-id") },
    azureClientSecret : { Undefined, Str("client-secret") } ]

\* loadConfig's validation: the configurations the HTTP server starts with.
loadConfigAccepts(c) ==
  /\ c.oauthEnabled =>
       /\ Truthy(c.jwtSecret)
       /\ Truthy(c.azureClientId) /\ Truthy(c.azureClientSecret)
  /\ c.patEnabled \/ c.oauthEnabled

\* ------------------------------------------------------------ bearer tokens
\* A bearer credential is either an opaque string (text) or a signed token:
\* sig is the secret it was signed with and payload its claims.
NoPayload ==
  [ sub |-> Undefined, accessToken |-> Undefined, organization |-> Undefined,
    iat |-> 0, exp |-> 0 ]

Opaque(text) ==
  [ kind |-> "opaque", text |-> text, sig |-> Undefined,
    payload |-> NoPayload ]

\* jwt.sign(payload, secret)
jwtSign(payload, secret) ==
  [ kind |-> "jwt", text |-> Undefined, sig |-> secret, payload |-> payload ]

Claims(sub, at, org, iat, exp) ==
  [ sub |-> sub, accessToken |-> at, organization |-> org,
    iat |-> iat, exp |-> exp ]

\* The bearer credentials presented to the gateway: a personal access
\* token, and session tokens as minted, without the custom claims, with
\* empty claims, signed with another secret, and expiring at time 1.
Tokens ==
  { Opaque(Str("pat-1")),
    jwtSign(Claims(Str("user1"), Str("ado-token"), Str("fabrikam"), 0, 9),
            Str("s1")),
    jwtSign(Claims(Str("user1"), Undefined, Undefined, 0, 9), Str("s1")),
    jwtSign(Claims(<< >>, << >>, << >>, 0, 9), Str("s1")),
    jwtSign(Claims(Str("user1"), Str("ado-token"), Str("fabrikam"), 0, 9),
            Str("s2")),
    jwtSign(Claims(Str("user1"), Str("ado-token"), Str("fabrikam"), 0, 1),
            Str("s1")) }

\* jwt.verify(token, secret) at time t: the signature matches and the token
\* has not expired; it throws (FALSE) otherwise.
jwtVerify(token, secret, t) ==
  /\ token.kind = "jwt"
  /\ token.sig = secret
  /\ t < token.payload.exp

\* ---------------------------------------------------------------- requests
\* The Authorization header as the code inspects it: absent, or a string
\* split at position 7 into its prefix and the rest (substring(7)).
AuthorizationHeaders ==
  { [ present |-> FALSE, prefix |-> "", rest |-> Opaque(<< >>) ] } \cup
  { [ present |-> TRUE, prefix |-> "Invalid", rest |-> Opaque(Str("format")) ] } \cup
  { [ present |-> TRUE, prefix |-> "Bearer ", rest |-> t ] : t \in Tokens }

\* The x-ado-organization header: absent, empty or an organization name.
OrganizationHeaders == { Undefined, << >>, Str("contoso") }

\* The request bodies express.json() meets: none, JSON text, other text.
Bodies == { "none", "json", "malformed" }

\* Mutant of startsWithBearer: any present header passes for a Bearer one.
startsWithBearer_anyPresent(h) == h.present

\* authHeader.startsWith('Bearer ') on a present header.
startsWithBearer(h) == h.present /\ h.prefix = "Bearer "

\* ---------------------------------------------------------------- responses
Reply(status, error) == [ status |-> status, error |-> error ]

\* What a middleware run leaves behind: the responses it sent, the identity
\* it bound to req.auth, whether it called next(), and whether it is
\* suspended on the downstream validation call.
Respond(status, error) ==
  [ res |-> << Reply(status, error) >>, auth |-> {}, next |-> FALSE,
    await |-> FALSE ]

Proceed(identity) ==
  [ res |-> << >>, auth |-> { identity }, next |-> TRUE, await |-> FALSE ]

Suspend == [ res |-> << >>, auth |-> {}, next |-> FALSE, await |-> TRUE ]

\* ------------------------------------------------------- AuthService (PAT)
\* Mutant of patOrganizationMissing: the organization check is left out.
patOrganizationMissing_never(organization) == FALSE

\* !organization
patOrganizationMissing(organization) == ~Truthy(organization)

\* req.auth as authenticateWithPAT sets it.
patIdentity(token, organization) ==
  [ type |-> "pat", token |-> token, organization |-> organization,
    userId |-> Undefined, claims |-> {} ]

\* authenticateWithPAT up to its await: the checks that answer at once, or
\* the suspension on validatePAT.
authenticateWithPAT(c, headers) ==
  IF ~c.patEnabled
    THEN Respond(501, "PAT authentication is not enabled")
  ELSE IF ~startsWithBearer(headers.authorization)
    THEN Respond(401, "Missing or invalid Authorization header. Expected: Bearer <PAT_TOKEN>")
  ELSE IF patOrganizationMissing(headers.xAdoOrganization)
    THEN Respond(400, "Missing x-ado-organization header")
  ELSE Suspend

\* The outcomes of the downstream call validatePAT makes (getProjects).
DownstreamOutcomes == { "ok", "401", "403", "network" }

\* Mutant of validatePAT: only a 401 of the downstream API counts as invalid.
validatePAT_only401(downstream) == downstream # "401"

\* validatePAT: true when the call succeeded, false on anything thrown.
validatePAT(downstream) == downstream = "ok"

\* authenticateWithPAT setting req.auth before it looks at isValid.
patAfterValidation_bindsFirst(isValid, headers) ==
  LET identity == patIdentity(headers.authorization.rest,
                              headers.xAdoOrganization)
  IN IF ~isValid
       THEN [ Respond(401, "Invalid Personal Access Token")
                EXCEPT !.auth = { identity } ]
       ELSE Proceed(identity)

\* authenticateWithPAT after validatePAT has returned isValid.
patAfterValidation(isValid, headers) ==
  IF ~isValid
    THEN Respond(401, "Invalid Personal Access Token")
    ELSE Proceed(patIdentity(headers.authorization.rest,
                             headers.xAdoOrganization))

\* ----------------------------------------------------- AuthService (OAuth)
\* Mutant of oauthOrganization: the header takes precedence over the claim.
oauthOrganization_headerFirst(decoded, headers) ==
  OrElse(headers.xAdoOrganization, decoded.organization)

\* decoded.organization || req.headers['x-ado-organization']
oauthOrganization(decoded, headers) ==
  OrElse(decoded.organization, headers.xAdoOrganization)

\* req.auth as authenticateWithOAuth sets it.
oauthIdentity(token, decoded, organization) ==
  [ type |-> "oauth", token |-> Opaque(OrElse(decoded.accessToken, << >>)),
    organization |-> organization, userId |-> decoded.sub,
    claims |-> { decoded } ]

\* authenticateWithOAuth, run at time t (it never suspends).
authenticateWithOAuth(c, headers, t) ==
  IF ~c.oauthEnabled
    THEN Respond(501, "OAuth authentication is not enabled")
  ELSE IF ~startsWithBearer(headers.authorization)
    THEN Respond(401, "Missing or invalid Authorization header. Expected: Bearer <JWT_TOKEN>")
  ELSE LET token == headers.authorization.rest IN
    IF ~Truthy(c.jwtSecret) \/ ~jwtVerify(token, c.jwtSecret, t)
      THEN Respond(401, "Invalid or expired token")
    ELSE LET decoded == token.payload
             organization == oauthOrganization(decoded, headers)
         IN IF ~Truthy(organization)
              THEN Respond(400, "Organization not found in token or headers")
              ELSE Proceed(oauthIdentity(token, decoded, organization))

\* --------------------------------------------- AuthService.authenticate
\* Mutant of selectScheme: a token that fails local verification is
\* rejected instead of falling through to the credential-token scheme.
selectScheme_rejectsFailed(c, token, t) ==
  IF c.oauthEnabled /\ Truthy(c.jwtSecret)
    THEN (IF jwtVerify(token, c.jwtSecret, t) THEN "oauth" ELSE "none")
  ELSE IF c.patEnabled THEN "pat"
  ELSE "none"

\* Mutant of selectScheme: with the credential-token scheme disabled every
\* Bearer token is handed to the federated scheme.
selectScheme_oauthWhenPatOff(c, token, t) ==
  IF c.oauthEnabled /\ Truthy(c.jwtSecret) /\ jwtVerify(token, c.jwtSecret, t)
    THEN "oauth"
  ELSE IF c.patEnabled THEN "pat"
  ELSE "oauth"

\* The scheme authenticate hands the request to, for a Bearer token seen at
\* time t: local verification first, the credential-token scheme otherwise.
selectScheme(c, token, t) ==
  IF c.oauthEnabled /\ Truthy(c.jwtSecret) /\ jwtVerify(token, c.jwtSecret, t)
    THEN "oauth"
  ELSE IF c.patEnabled THEN "pat"
  ELSE "none"

\* authenticate trying the credential-token scheme when the federated
\* scheme has refused a token that passed the first verification.
authenticate_patAfterOAuth(c, headers, t1, t2) ==
  IF ~startsWithBearer(headers.authorization)
    THEN Respond(401, "Missing or invalid Authorization header")
  ELSE LET scheme == selectScheme(c, headers.authorization.rest, t1)
           federated == authenticateWithOAuth(c, headers, t2)
       IN
    CASE scheme = "oauth" /\ (federated.next \/ ~c.patEnabled) -> federated
      [] scheme = "oauth" \/ scheme = "pat" -> authenticateWithPAT(c, headers)
      [] OTHER -> Respond(401, "No valid authentication method found")

\* authenticate with its first verification at time t1 and the one inside
\* authenticateWithOAuth at time t2.
authenticate(c, headers, t1, t2) ==
  IF ~startsWithBearer(headers.authorization)
    THEN Respond(401, "Missing or invalid Authorization header")
  ELSE LET scheme == selectScheme(c, headers.authorization.rest, t1) IN
    CASE scheme = "oauth" -> authenticateWithOAuth(c, headers, t2)
      [] scheme = "pat" -> authenticateWithPAT(c, headers)
      [] OTHER -> Respond(401, "No valid authentication method found")


\* --------------------------------------------------- JSON and URL encoding
\* The characters encodeURIComponent escapes, with the hexadecimal pair of
\* each; every other symbol is a run of unreserved characters and is kept.
Reserved == { "\"", "\\", "%", " ", "{", "}", ":", "/" }

HexOf(ch) ==
  CASE ch = "\"" -> "22" [] ch = "\\" -> "5C" [] ch = "%" -> "25"
    [] ch = " " -> "20" [] ch = "{" -> "7B" [] ch = "}" -> "7D"
    [] ch = ":" -> "3A" [] ch = "/" -> "2F"

HexPairs == { HexOf(ch) : ch \in Reserved }

CharOf(hex) == CHOOSE ch \in Reserved : HexOf(ch) = hex

\* Mutant of jsonEscape: quotes and backslashes are written unescaped.
jsonEscape_none(str) == str

\* The body of a JSON string literal: quotes and backslashes are escaped.
RECURSIVE jsonEscape(_)
jsonEscape(str) ==
  IF str = << >> THEN << >>
  ELSE (IF Head(str) \in { "\"", "\\" } THEN << "\\", Head(str) >>
        ELSE << Head(str) >>) \o jsonEscape(Tail(str))

\* JSON.stringify({ organization }): a key whose value is undefined is left
\* out.
jsonStringify(organization) ==
  IF organization = Undefined THEN << "{", "}" >>
  ELSE << "{", "\"", "organization", "\"", ":", "\"" >>
         \o jsonEscape(organization) \o << "\"", "}" >>

\* The text of a JSON string literal's body, or Undefined when the body is
\* not well formed (a bare quote, a backslash that escapes neither a quote
\* nor a backslash).
RECURSIVE jsonUnescape(_)
jsonUnescape(body) ==
  IF body = << >> THEN << >>
  ELSE IF Head(body) = "\""  THEN Undefined
  ELSE IF Head(body) = "\\" THEN
    IF Len(body) >= 2 /\ body[2] \in { "\"", "\\" }
      THEN LET rest == jsonUnescape(SubSeq(body, 3, Len(body)))
           IN IF rest = Undefined THEN Undefined ELSE << body[2] >> \o rest
      ELSE Undefined
  ELSE LET rest == jsonUnescape(Tail(body))
       IN IF rest = Undefined THEN Undefined ELSE << Head(body) >> \o rest

\* JSON.parse(text) followed by .organization, for the texts a state value
\* can be: ok is FALSE when either throws (text that is not JSON, null).
jsonParseOrganization(text) ==
  IF text = << "{", "}" >>
    THEN [ ok |-> TRUE, organization |-> Undefined ]
  ELSE IF /\ Len(text) >= 8
          /\ SubSeq(text, 1, 6) = << "{", "\"", "organization", "\"", ":", "\"" >>
          /\ SubSeq(text, Len(text) - 1, Len(text)) = << "\"", "}" >>
          /\ jsonUnescape(SubSeq(text, 7, Len(text) - 2)) # Undefined
    THEN [ ok |-> TRUE,
           organization |-> jsonUnescape(SubSeq(text, 7, Len(text) - 2)) ]
  ELSE [ ok |-> FALSE, organization |-> Undefined ]

\* encodeURIComponent(str)
RECURSIVE encodeURIComponent(_)
encodeURIComponent(str) ==
  IF str = << >> THEN << >>
  ELSE (IF Head(str) \in Reserved THEN << "%", HexOf(Head(str)) >>
        ELSE << Head(str) >>) \o encodeURIComponent(Tail(str))

\* The query-string decoding Express applies to a parameter value.
RECURSIVE queryDecode(_)
queryDecode(str) ==
  IF str = << >> THEN << >>
  ELSE IF Head(str) = "%" /\ Len(str) >= 2 /\ str[2] \in HexPairs
    THEN << CharOf(str[2]) >> \o queryDecode(SubSeq(str, 3, Len(str)))
  ELSE << Head(str) >> \o queryDecode(Tail(str))

\* ------------------------------------------------------- protocol messages
\* Bound on the number of messages a server instance hands to its transport
\* in one session.
MaxMsgs == 2
\* Bound on the number of transport errors reported in one delegation.
MaxErrors == 2
\* Bound on the number of close calls a server instance makes on its
\* transport.
MaxServerCloses == 1
\* Bound on the number of 'error' events the request of a stream emits.
MaxRequestErrors == 1

\* req.body of POST /mcp as the handler sees it: nothing at all, or the
\* parsed object with its id and method (undefined when the key is not
\* there) and whether it has any other key (jsonrpc, params).
NoBody ==
  [ present |-> FALSE, id |-> Undefined, method |-> Undefined, other |-> FALSE ]

EmptyObject == [ NoBody EXCEPT !.present = TRUE ]

Methods ==
  { << "tools/call" >>, << "notifications/", "initialized" >>, << "initialized" >> }

\* The methods getTimeoutForMethod tells apart from the rest, and no
\* method at all.
TimedMethods ==
  { << "tools/list" >>, << "prompts/list" >>, << "initialize" >>, Undefined }

\* The JSON bodies of POST /mcp: {}, Requests (id and method) and
\* Notifications (method, no id), and Requests for the methods that have a
\* timeout of their own or that have no method.
Messages ==
  { EmptyObject } \cup
  { [ present |-> TRUE, id |-> id, method |-> method, other |-> TRUE ] :
      id \in { Undefined, Str("7") }, method \in Methods } \cup
  { [ present |-> TRUE, id |-> Str("7"), method |-> method, other |-> TRUE ] :
      method \in TimedMethods }

\* !req.body || Object.keys(req.body).length === 0, treating {} like no body.
isEmptyBody_onlyAbsent(body) == ~body.present

\* !req.body || Object.keys(req.body).length === 0
isEmptyBody(body) ==
  \/ ~body.present
  \/ body.id = Undefined /\ body.method = Undefined /\ ~body.other

\* method?.startsWith(prefix)
methodStartsWith(method, prefix) ==
  /\ method # Undefined
  /\ Len(prefix) <= Len(method)
  /\ SubSeq(method, 1, Len(prefix)) = prefix

\* getTimeoutForMethod giving every method the same time.
getTimeoutForMethod_flat(method) == 1000

\* getTimeoutForMethod(method), in milliseconds
getTimeoutForMethod(method) ==
  IF methodStartsWith(method, << "tools/call" >>) THEN 5000
  ELSE IF methodStartsWith(method, << "tools/list" >>)
            \/ methodStartsWith(method, << "prompts/list" >>) THEN 2000
  ELSE IF method = << "initialize" >> THEN 1000
  ELSE 1000

\* A JSON-RPC message going out: `from` is the server instance that
\* produced it (0: synthesized by the HTTP server itself), `kind` tells a
\* result, a null result, a notification, a request to the client, an
\* error response and the fixed initialization result apart.
Outbound(from, id, kind) ==
  [ from |-> from, id |-> id, kind |-> kind,
    code |-> 0, message |-> << >>, data |-> << >> ]

\* { jsonrpc: "2.0", id, error: { code: -32603, message, data } }
ErrorResponse(id, message, data) ==
  [ from |-> 0, id |-> id, kind |-> "error",
    code |-> -32603, message |-> message, data |-> data ]

\* The answer to an empty body: id 1 and the capability declaration.
InitializationResult == Outbound(0, Str("1"), "capabilities")

\* What the server instance `from` can hand to its transport while it
\* holds the inbound message `inbound`: notifications and requests of its
\* own, and results for the id of the inbound message.
ServerOutputs(from, inbound, streaming) ==
  { Outbound(from, Undefined, "notification") } \cup
  (IF streaming THEN { Outbound(from, Str("s1"), "request") } ELSE {}) \cup
  (IF inbound.id # Undefined
     THEN { Outbound(from, inbound.id, "result"),
            Outbound(from, inbound.id, "null-result") }
     ELSE {})

\* The Errors a transport reports through onerror, by their message.
TransportErrors == { Str("socket hang up"), Str("write EPIPE") }

\* What delegateToMcpServer resolves with: null, or a response object.
Null == [ null |-> TRUE, value |-> Outbound(0, Undefined, "none") ]

Value(v) == [ null |-> FALSE, value |-> v ]

\* The resolution with the message buffer looked at before the error
\* buffer and the newest message taken.
resolve_newestMessageFirst(message, responseData, errorData) ==
  IF Len(responseData) > 0
    THEN Value(responseData[Len(responseData)])
  ELSE IF Len(errorData) > 0
    THEN Value(ErrorResponse(message.id, Str("Server transport error"),
                             errorData[1]))
  ELSE IF methodStartsWith(message.method, << "notifications/" >>)
    THEN Null
  ELSE Value(ErrorResponse(message.id,
               << "Server timeout: no response for " >> \o message.method,
               Undefined))

\* delegateToMcpServer once its wait is over: the outcome chosen from the
\* two buffers and the inbound message.
resolve(message, responseData, errorData) ==
  IF Len(errorData) > 0
    THEN Value(ErrorResponse(message.id, Str("Server transport error"),
                             errorData[1]))
  ELSE IF Len(responseData) > 0
    THEN Value(responseData[1])
  ELSE IF methodStartsWith(message.method, << "notifications/" >>)
    THEN Null
  ELSE Value(ErrorResponse(message.id,
               << "Server timeout: no response for " >> \o message.method,
               Undefined))

\* The HTTP answer of handleMcpRequest: a JSON body, or 204 without one.
HttpJson(status, value) == [ status |-> status, json |-> << value >> ]

NoContent == [ status |-> 204, json |-> << >> ]

\* handleMcpRequest once delegateToMcpServer has resolved.
respond(response) ==
  IF ~response.null THEN HttpJson(200, response.value) ELSE NoContent

\* The Upgrade and Accept headers of a request, as handleMcpRequest reads
\* them.
UpgradeHeaders == { Undefined, Str("sse"), Str("websocket") }

AcceptHeaders ==
  { Undefined, << "application/json", ", ", "text/event-stream" >> }

\* str.includes(part), for a part that is one symbol
includes(str, part) == \E k \in 1 .. Len(str) : str[k] = part

\* shouldUpgradeToSSE with the Accept header counting for POST as well.
shouldUpgradeToSSE_acceptAlso(method, upgradeHeader, accept) ==
  \/ includes(OrElse(accept, << >>), "text/event-stream")
  \/ upgradeHeader = Str("sse")

\* shouldUpgradeToSSE of handleMcpRequest
shouldUpgradeToSSE(method, upgradeHeader, accept) ==
  IF method = "POST"
    THEN upgradeHeader = Str("sse")
    ELSE \/ includes(OrElse(accept, << >>), "text/event-stream")
         \/ upgradeHeader = Str("sse")

\* What a constructor or server.connect throws.
ConstructionError == Str("construction failed")

\* JavaScript's null, as the id of an envelope.
NullId == << "null" >>

\* { error: 'Failed to establish MCP connection' }
ConnectionFailed ==
  [ Outbound(0, Undefined, "plain-error")
      EXCEPT !.message = Str("Failed to establish MCP connection") ]

\* { jsonrpc: "2.0", id: null, error: { code: -32603, message: "Internal
\* error", data: error } }
InternalError(error) == ErrorResponse(NullId, Str("Internal error"), error)

\* { jsonrpc: "2.0", id: null, error: { code: -32700, message: "Parse
\* error", data: parseError } }
ParseError(parseError) ==
  [ ErrorResponse(NullId, Str("Parse error"), parseError)
      EXCEPT !.code = -32700 ]

\* The catch of delegateToMcpServer: what it resolves with when
\* server.connect or onmessage throws.
delegateFailed(message, error) ==
  Value(ErrorResponse(message.id, Str("Failed to delegate to server"), error))

\* ------------------------------------------------------------- transports
\* No transport yet.
NoTransport == [ kind |-> "none", sink |-> 0, closed |-> FALSE ]

\* An HttpTransport that writes to one response shared by all requests.
HttpTransport_sharedResponse(i) ==
  [ kind |-> "http", sink |-> 1, closed |-> FALSE ]

\* new HttpTransport({ request: req, response: res }) in the handler of
\* request i: sink is the request whose response it writes to.
HttpTransport(i) == [ kind |-> "http", sink |-> i, closed |-> FALSE ]

\* The delegateTransport of the delegateToMcpServer call of request i: sink
\* is the request whose buffers its send and onerror push to.
delegateTransport(i) == [ kind |-> "delegate", sink |-> i, closed |-> FALSE ]

\* What HttpTransport.send throws on a closed transport.
TransportIsClosed == Str("Transport is closed")

\* What JSON.stringify or response.write throws when the write fails.
WriteError == Str("write failed")

\* The outcome of a call on the transport with the transport open again
\* after it.
Sent_reopens(transport, written, thrown, onerror) ==
  [ transport |-> [ transport EXCEPT !.closed = FALSE ], written |-> written,
    thrown |-> thrown, onerror |-> onerror ]

\* The outcome of a call on the transport: the transport after it, the
\* events of the response, what it threw (nothing: the empty sequence) and
\* how many times it raised onerror.
Sent(transport, written, thrown, onerror) ==
  [ transport |-> transport, written |-> written, thrown |-> thrown,
    onerror |-> onerror ]

\* HttpTransport.send putting the newest event first.
send_newestFirst(transport, written, message, fails) ==
  IF transport.closed
    THEN Sent(transport, written, << TransportIsClosed >>, 0)
  ELSE IF fails
    THEN Sent(transport, written, << WriteError >>, 1)
  ELSE Sent(transport, << [ data |-> message ] >> \o written, << >>, 0)

\* HttpTransport.send(message): throws on a closed transport; else writes
\* one event with the serialized message to the response, and when that
\* fails (fails) raises onerror and throws what was thrown.
send(transport, written, message, fails) ==
  IF transport.closed
    THEN Sent(transport, written, << TransportIsClosed >>, 0)
  ELSE IF fails
    THEN Sent(transport, written, << WriteError >>, 1)
  ELSE Sent(transport, Append(written, [ data |-> message ]), << >>, 0)

\* The request's 'error' listener closing the transport.
requestError_closes(transport) ==
  [ transport |-> [ transport EXCEPT !.closed = TRUE ],
    end |-> 1, onclose |-> 1, onerror |-> 1 ]

\* The 'error' listener the HttpTransport constructor puts on the request:
\* the transport after the event, and how many times the listener ended
\* the response and raised onclose and onerror.
requestError(transport) ==
  [ transport |-> transport, end |-> 0, onclose |-> 0, onerror |-> 1 ]

\* HttpTransport.close without the _closed check.
close_unguarded(transport) ==
  [ transport |-> [ transport EXCEPT !.closed = TRUE ], end |-> 1, onclose |-> 1 ]

\* HttpTransport.close(): the transport after the call, and how many times
\* the call ended the response and raised onclose.
close(transport) ==
  IF transport.closed
    THEN [ transport |-> transport, end |-> 0, onclose |-> 0 ]
    ELSE [ transport |-> [ transport EXCEPT !.closed = TRUE ],
           end |-> 1, onclose |-> 1 ]

\* -------------------------------------------------------------------- state
VARIABLES
  config,   \* the AuthConfig the AuthService was constructed with
  now,      \* the wall clock jwt.verify reads
  req,      \* the /mcp requests in flight, by slot
  flow      \* one run of the OAuth authorization-code flow

vars == << config, now, req, flow >>

Slots == 1 .. MaxReq

Headers == [ authorization : AuthorizationHeaders,
             xAdoOrganization : OrganizationHeaders ]

\* A slot with no request in it.
Idle ==
  [ pc |-> "idle", method |-> "GET", body |-> "none",
    headers |-> [ authorization |-> [ present |-> FALSE, prefix |-> "",
                                      rest |-> Opaque(<< >>) ],
                  xAdoOrganization |-> Undefined ],
    auth |-> {}, res |-> << >>, nextCalls |-> 0, validateCalls |-> 0,
    downstream |-> << >>, localVerify |-> "not-run", scheme |-> "unselected",
    trace |-> << >>,
    \* what the route handler reads and builds
    settled |-> FALSE, upgradeHeader |-> Undefined, accept |-> Undefined,
    upgrade |-> FALSE, message |-> NoBody, servers |-> 0,
    transport |-> NoTransport, reply |-> << >>, failure |-> "none",
    \* stream: the 'close' listeners on the request, the close calls, what
    \* the server instance handed to send, and the response's events
    listeners |-> 0, disconnected |-> FALSE, closeCalls |-> 0,
    serverCloses |-> 0, oncloseCalls |-> 0, requestErrors |-> 0,
    onerrorCalls |-> 0,
    handed |-> << >>,
    written |-> << >>, ended |-> 0,
    \* delegation: the two buffers, the messages given to onmessage, the
    \* wait and the outcome
    responseData |-> << >>, errorData |-> << >>, delivered |-> << >>,
    timeout |-> 0, waited |-> 0, resolved |-> << >> ]

\* A request as Express receives it.
Incoming(method, body, headers) ==
  [ Idle EXCEPT !.pc = "middleware", !.method = method, !.body = body,
                !.headers = headers ]

\* The request r with the Upgrade header and the body its handler will
\* read (and no Accept header).
Settled(r, upgradeHeader, message) ==
  [ r EXCEPT !.settled = TRUE, !.upgradeHeader = upgradeHeader,
             !.message = message ]

\* The body {"jsonrpc":"2.0","id":"7","method":"tools/call",...}
PlainRequest ==
  [ present |-> TRUE, id |-> Str("7"), method |-> << "tools/call" >>,
    other |-> TRUE ]

\* The request of slot i after a middleware run that left `out` behind and
\* performed the steps `steps`.
After(r, out, steps) ==
  [ r EXCEPT
      !.res = r.res \o out.res,
      !.auth = r.auth \cup out.auth,
      !.nextCalls = r.nextCalls + (IF out.next THEN 1 ELSE 0),
      !.validateCalls = r.validateCalls + (IF out.await THEN 1 ELSE 0),
      !.trace = r.trace \o steps
                  \o (IF out.await THEN << "validatePAT" >> ELSE << >>)
                  \o (IF out.next THEN << "next" >> ELSE << >>)
                  \o (IF out.res # << >> THEN << "respond" >> ELSE << >>),
      !.pc = IF out.await THEN "validating"
             ELSE IF out.next THEN "handler"
             ELSE "done" ]

\* The request r after express.json(): a body that is there is parsed, and
\* one that does not parse is answered by the error handler.
Parsed(r) ==
  CASE r.body = "none" -> [ r EXCEPT !.pc = "authenticate" ]
    [] r.body = "json" ->
         [ r EXCEPT !.pc = "authenticate",
                    !.trace = @ \o << "express.json" >> ]
    [] OTHER ->
         [ r EXCEPT !.pc = "done",
                    !.trace = @ \o << "express.json", "respond" >>,
                    !.res = @ \o << Reply(500, "Internal server error") >> ]

\* The request r after AuthService.authenticate, under configuration c, has
\* run up to its first await, with the clock at t1 and then t2.
Gate(r, c, t1, t2) ==
  LET bearer == startsWithBearer(r.headers.authorization)
      token == r.headers.authorization.rest
      ran == bearer /\ c.oauthEnabled /\ Truthy(c.jwtSecret)
      seen == [ r EXCEPT
        !.localVerify =
           IF ~ran THEN "not-run"
           ELSE IF jwtVerify(token, c.jwtSecret, t1)
                  THEN "passed" ELSE "failed",
        !.scheme = IF bearer THEN selectScheme(c, token, t1)
                   ELSE "unselected" ]
  IN After(seen, authenticate(c, r.headers, t1, t2), << "authenticate" >>)

\* The configured logging levels.
LogLevels == { "debug", "info", "warn", "error" }

\* new AuthService(this.config.auth): what the gateway gets of the server
\* configuration.
AuthService(serverConfig) == serverConfig.auth

\* authenticateWithPAT telling the caller why the validation failed.
Validated_leaksCause(r, d) ==
  After([ r EXCEPT !.downstream = @ \o << d >> ],
        IF d = "ok" THEN patAfterValidation(TRUE, r.headers)
        ELSE Respond(401, d), << >>)

\* The request r after validatePAT has settled with the downstream
\* outcome d.
Validated(r, d) ==
  After([ r EXCEPT !.downstream = @ \o << d >> ],
        patAfterValidation(validatePAT(d), r.headers), << >>)

\* ---------------------------------------------------------- route handlers
\* res.headersSent: something of the response has gone out.
headersSent(r) == r.written # << >> \/ r.ended > 0 \/ r.reply # << >>

\* The catch of handleMcpConnection leaving the connection without an
\* answer.
establishFailed_silent(r, failure) ==
  [ r EXCEPT !.failure = failure, !.pc = "done" ]

\* The catch of handleMcpConnection, after `failure` (the construction of
\* the session, or server.connect) has thrown.
establishFailed(r, failure) ==
  IF headersSent(r)
    THEN [ r EXCEPT !.failure = failure, !.pc = "done" ]
    ELSE [ r EXCEPT !.failure = failure, !.pc = "done",
                    !.reply = << HttpJson(500, ConnectionFailed) >>,
                    !.trace = @ \o << "respond" >> ]

\* The outer catch of handleMcpRequest leaving the request without an
\* answer.
requestFailed_silent(r, error) ==
  [ r EXCEPT !.failure = "construct", !.pc = "done" ]

\* The outer catch of handleMcpRequest, after the construction of the
\* session has thrown.
requestFailed(r, error) ==
  IF headersSent(r)
    THEN [ r EXCEPT !.failure = "construct", !.pc = "done" ]
    ELSE [ r EXCEPT !.failure = "construct", !.pc = "done",
                    !.reply = << HttpJson(500, InternalError(error)) >>,
                    !.trace = @ \o << "respond" >> ]

\* handleMcpConnection with a transport that gives the request it was
\* made for to onmessage.
handleMcpConnection_deliversRequest(r, i, fails) ==
  IF fails
    THEN establishFailed(r, "construct")
    ELSE [ r EXCEPT !.servers = @ + 1,
                    !.transport = HttpTransport(i),
                    !.listeners = 1,
                    !.delivered = << PlainRequest >>,
                    !.pc = "connecting",
                    !.trace = @ \o << "new McpServer", "new HttpTransport",
                                      "server.connect" >> ]

\* handleMcpConnection in the handler of request i, up to its await: a
\* server instance, an HttpTransport on the request's own response (its
\* constructor listens for the request's 'close'), server.connect.  With
\* fails, making or configuring the server instance throws.
handleMcpConnection(r, i, fails) ==
  IF fails
    THEN establishFailed(r, "construct")
    ELSE [ r EXCEPT !.servers = @ + 1,
                    !.transport = HttpTransport(i),
                    !.listeners = 1,
                    !.pc = "connecting",
                    !.trace = @ \o << "new McpServer", "new HttpTransport",
                                      "server.connect" >> ]

\* handleMcpRequest in the handler of request i, up to its first await or
\* its answer; upgradeHeader and accept are the request's Upgrade and
\* Accept headers and message is req.body.  With fails, making or
\* configuring the server instance throws.
handleMcpRequest(r0, i, upgradeHeader, accept, message, fails) ==
  LET r == [ r0 EXCEPT !.upgradeHeader = upgradeHeader, !.accept = accept ]
  IN
  IF shouldUpgradeToSSE(r.method, upgradeHeader, accept)
    THEN handleMcpConnection([ r EXCEPT !.upgrade = TRUE ], i, fails)
  ELSE IF fails
    THEN requestFailed(r, ConstructionError)
  ELSE IF isEmptyBody(message)
    THEN [ r EXCEPT !.message = message,
                    !.servers = @ + 1,
                    !.reply = << HttpJson(200, InitializationResult) >>,
                    !.pc = "done",
                    !.trace = @ \o << "new McpServer", "respond" >> ]
  ELSE [ r EXCEPT !.message = message,
                  !.servers = @ + 1,
                  !.transport = delegateTransport(i),
                  !.pc = "delegating",
                  !.trace = @ \o << "new McpServer", "server.connect" >> ]

\* delegateTransport.send answering the request as soon as a message is
\* there, without waiting for the timer.
delegateSend_resolvesAtOnce(r, message) ==
  [ r EXCEPT !.responseData = Append(@, message),
             !.resolved = << Value(message) >>,
             !.reply = << respond(Value(message)) >>,
             !.trace = @ \o << "respond" >>,
             !.pc = "done" ]

\* delegateTransport.send(message) in the delegation of request r: the
\* message is put into the response buffer and nothing else happens.
delegateSend(r, message) ==
  [ r EXCEPT !.responseData = Append(@, message) ]

\* n calls of transport.close() in session i: the transport is session
\* i's, the response ended is the transport's, onclose goes to session i's
\* server instance.
RECURSIVE Closes(_, _, _)
Closes(rq, i, n) ==
  IF n = 0 THEN rq
  ELSE LET out == close(rq[i].transport)
           j == rq[i].transport.sink
           closed == [ rq EXCEPT ![i].transport = out.transport,
                                 ![i].closeCalls = @ + 1,
                                 ![i].oncloseCalls = @ + out.onclose ]
       IN Closes([ closed EXCEPT ![j].ended = @ + out.end ], i, n - 1)

\* ------------------------------------------------ AuthService (OAuth flow)
\* Bound on the number of symbols of an organization name.
MaxOrgLen == 2

\* The symbols organization names are made of.
OrgSymbols == { "contoso", "25", "\"", "\\", "%", " " }

RECURSIVE StringsUpTo(_)
StringsUpTo(n) ==
  IF n = 0 THEN { << >> }
  ELSE LET shorter == StringsUpTo(n - 1)
       IN shorter \cup { Append(str, ch) : str \in shorter, ch \in OrgSymbols }

\* req.query.organization of GET /auth/oauth.
QueryOrganizations == { Undefined } \cup StringsUpTo(MaxOrgLen)

\* req.query.redirect_uri of GET /auth/oauth, or the default built from
\* the request's protocol and host.
RedirectUris == { Undefined, << "https", ":", "/", "/", "app", "/", "cb" >> }

DefaultCallback == << "http", ":", "/", "/", "host", "/", "auth", "/", "callback" >>

\* The scopes initiateOAuthFlow asks for, joined by a space.
Scopes ==
  << "https", ":", "/", "/", "app.vssps.visualstudio.com", "/", "user_profile", " ",
     "https", ":", "/", "/", "dev.azure.com", "/", "user_profile", " ",
     "vso.work_write", " ", "vso.code_write", " ", "vso.build_execute", " ",
     "vso.release_execute" >>

\* A response body: an error, an authorization URL, or a session token.
\* res.json leaves out a key whose value is undefined.
ErrorBody(status, error) == [ status |-> status, body |-> [ error |-> error ] ]

AuthUrlBody(url) == [ status |-> 200, body |-> [ authUrl |-> url ] ]

TokenBody(token, expiresIn, organization) ==
  [ status |-> 200,
    body |-> IF organization = Undefined
               THEN [ token |-> token, expires_in |-> expiresIn ]
               ELSE [ token |-> token, expires_in |-> expiresIn,
                      organization |-> organization ] ]

\* initiateOAuthFlow with the organization check ahead of the
\* configuration check.
initiateOAuthFlow_organizationFirst(c, organization, redirect) ==
  IF ~Truthy(organization)
    THEN ErrorBody(400, "organization parameter is required")
  ELSE IF ~c.oauthEnabled \/ ~Truthy(c.azureClientId)
    THEN ErrorBody(501, "OAuth is not configured")
  ELSE AuthUrlBody(
         [ client_id |-> c.azureClientId,
           response_type |-> << "code" >>,
           redirect_uri |-> encodeURIComponent(OrElse(redirect, DefaultCallback)),
           scope |-> encodeURIComponent(Scopes),
           state |-> encodeURIComponent(jsonStringify(organization)) ])

\* initiateOAuthFlow: the response to GET /auth/oauth; the URL is kept as
\* its query parameters.
initiateOAuthFlow(c, organization, redirect) ==
  IF ~c.oauthEnabled \/ ~Truthy(c.azureClientId)
    THEN ErrorBody(501, "OAuth is not configured")
  ELSE IF ~Truthy(organization)
    THEN ErrorBody(400, "organization parameter is required")
  ELSE AuthUrlBody(
         [ client_id |-> c.azureClientId,
           response_type |-> << "code" >>,
           redirect_uri |-> encodeURIComponent(OrElse(redirect, DefaultCallback)),
           scope |-> encodeURIComponent(Scopes),
           state |-> encodeURIComponent(jsonStringify(organization)) ])

\* handleOAuthCallback calling the token endpoint before it reads the
\* state.
handleOAuthCallback_exchangesFirst(c, query) ==
  IF ~c.oauthEnabled \/ ~Truthy(c.azureClientSecret) \/ ~Truthy(c.azureClientId)
    THEN [ res |-> << ErrorBody(501, "OAuth is not configured") >>,
           await |-> FALSE, organization |-> Undefined ]
  ELSE IF ~Truthy(query.code)
    THEN [ res |-> << ErrorBody(400, "Authorization code not provided") >>,
           await |-> FALSE, organization |-> Undefined ]
  ELSE [ res |-> << >>, await |-> TRUE,
         organization |-> IF Truthy(query.state)
                            THEN jsonParseOrganization(query.state).organization
                            ELSE Undefined ]

\* handleOAuthCallback up to its await: a response at once, or the
\* organization read from the state and the suspension on the token
\* endpoint.
handleOAuthCallback(c, query) ==
  IF ~c.oauthEnabled \/ ~Truthy(c.azureClientSecret) \/ ~Truthy(c.azureClientId)
    THEN [ res |-> << ErrorBody(501, "OAuth is not configured") >>,
           await |-> FALSE, organization |-> Undefined ]
  ELSE IF ~Truthy(query.code)
    THEN [ res |-> << ErrorBody(400, "Authorization code not provided") >>,
           await |-> FALSE, organization |-> Undefined ]
  ELSE LET stateData == IF Truthy(query.state)
                          THEN jsonParseOrganization(query.state)
                          ELSE [ ok |-> TRUE, organization |-> Undefined ]
       IN IF ~stateData.ok
            THEN [ res |-> << ErrorBody(400, "Failed to exchange authorization code") >>,
                   await |-> FALSE, organization |-> Undefined ]
            ELSE [ res |-> << >>, await |-> TRUE,
                   organization |-> stateData.organization ]

\* How exchangeCodeForToken's fetch settles: the request fails on the
\* network, the token endpoint answers with a status that is not ok, or it
\* answers 200 with an access token and its lifetime in seconds.
TokenEndpointAnswers ==
  { [ ok |-> FALSE, status |-> st, access_token |-> Undefined, expires_in |-> 0 ] :
      st \in { "network", "400", "500" } } \cup
  { [ ok |-> TRUE, status |-> "200", access_token |-> at, expires_in |-> e ] :
      at \in { Str("ado-token"), << "ado", ".", "sig" >> }, e \in { 1, 3600 } }

\* access_token.split('.')[0]
RECURSIVE firstSegment(_)
firstSegment(str) ==
  IF str = << >> \/ Head(str) = "." THEN << >>
  ELSE << Head(str) >> \o firstSegment(Tail(str))

\* completeOAuthCallback without exchangeCodeForToken's response.ok check.
completeOAuthCallback_ignoresStatus(c, organization, answer, t1, t2) ==
  IF ~Truthy(c.jwtSecret)
    THEN [ minted |-> {},
           res |-> << ErrorBody(400, "Failed to exchange authorization code") >> ]
  ELSE LET jwtToken ==
             jwtSign(Claims(<< >>, answer.access_token, organization,
                            t1, t2 + answer.expires_in),
                     c.jwtSecret)
       IN [ minted |-> { jwtToken },
            res |-> << TokenBody(jwtToken, answer.expires_in, organization) >> ]

\* handleOAuthCallback after exchangeCodeForToken has settled: the session
\* token minted (if any) and the response.  Date.now() is read twice, at t1
\* for iat and at t2 for exp.
completeOAuthCallback(c, organization, answer, t1, t2) ==
  IF ~answer.ok \/ ~Truthy(c.jwtSecret)
    THEN [ minted |-> {},
           res |-> << ErrorBody(400, "Failed to exchange authorization code") >> ]
  ELSE LET jwtToken ==
             jwtSign(Claims(firstSegment(answer.access_token),
                            answer.access_token, organization,
                            t1, t2 + answer.expires_in),
                     c.jwtSecret)
       IN [ minted |-> { jwtToken },
            res |-> << TokenBody(jwtToken, answer.expires_in, organization) >> ]

\* No OAuth flow has started.
NoFlow ==
  [ pc |-> "start", organization |-> Undefined, redirect |-> Undefined,
    initRes |-> << >>,
    query |-> [ code |-> Undefined, state |-> Undefined ],
    initRouted |-> FALSE, routed |-> FALSE,
    redirected |-> FALSE, stateOrganization |-> Undefined,
    tokenCalls |-> 0, tokenResponse |-> << >>, minted |-> {}, res |-> << >> ]

\* The query of GET /auth/callback: the code and the state values a caller
\* can send without having gone through /auth/oauth.
Codes == { Undefined, Str("code-1") }

DirectStates == { Undefined, << "garbage" >>, << "{", "}" >> }

\* ------------------------------------------------------------------ actions
\* A client sends GET /mcp (no body) or POST /mcp (with or without a body):
\* here without Upgrade and Accept headers, and a body that parses is a
\* tools/call Request.
Arrive(i) ==
  /\ req[i].pc = "idle"
  /\ \E method \in { "GET", "POST" }, body \in Bodies, headers \in Headers :
       /\ method = "GET" => body = "none"
       /\ req' = [ req EXCEPT ![i] =
                    Settled(Incoming(method, body, headers), Undefined,
                            IF body = "json" THEN PlainRequest ELSE NoBody) ]
  /\ UNCHANGED << config, now, flow >>

\* setupMiddleware: express.json() parses a body that is there; a body that
\* does not parse goes to the error handler and no route runs.
Middleware(i) ==
  /\ req[i].pc = "middleware"
  /\ req' = [ req EXCEPT ![i] = Parsed(req[i]) ]
  /\ UNCHANGED << config, now, flow >>

\* The route's first handler, AuthService.authenticate, up to its first
\* await.  The clock may advance between its jwt.verify and the one in
\* authenticateWithOAuth.
Authenticate(i) ==
  /\ req[i].pc = "authenticate"
  /\ \E t2 \in { now, now + 1 } :
       /\ t2 <= MaxClock
       /\ now' = t2
       /\ req' = [ req EXCEPT ![i] = Gate(req[i], config, now, t2) ]
  /\ UNCHANGED << config, flow >>

\* validatePAT's downstream call comes back and authenticateWithPAT resumes.
ValidatePATReturn(i) ==
  /\ req[i].pc = "validating"
  /\ \E d \in DownstreamOutcomes :
       req' = [ req EXCEPT ![i] = Validated(req[i], d) ]
  /\ UNCHANGED << config, now, flow >>

\* next(): the route's second handler, handleMcpConnection for GET and
\* handleMcpRequest for POST, which reads the Upgrade header and the body
\* express.json left in req.body.
HandleMcp(i) ==
  /\ req[i].pc = "handler"
  /\ \E fails \in BOOLEAN :
       \/ /\ req[i].method = "GET"
          /\ req' = [ req EXCEPT ![i] = handleMcpConnection(@, i, fails) ]
       \/ /\ req[i].method = "POST"
          /\ \E upgradeHeader \in UpgradeHeaders, accept \in AcceptHeaders,
                message \in IF req[i].body = "json" THEN Messages
                            ELSE { NoBody } :
               /\ req[i].settled =>
                    /\ upgradeHeader = req[i].upgradeHeader
                    /\ accept = req[i].accept
                    /\ message = req[i].message
               /\ req' = [ req EXCEPT ![i] =
                            handleMcpRequest(@, i, upgradeHeader, accept,
                                             message, fails) ]
  /\ UNCHANGED << config, now, flow >>

\* handleMcpConnection ending the response once server.connect has settled.
StreamResume_endsResponse(i) ==
  /\ req[i].pc = "connecting"
  /\ req' = [ req EXCEPT ![i].listeners = @ + 1, ![i].pc = "streaming",
                         ![i].ended = @ + 1 ]
  /\ UNCHANGED << config, now, flow >>

\* server.connect has settled in handleMcpConnection: fulfilled, and the
\* handler adds its own 'close' listener to the request; or rejected, and
\* the handler's catch runs.
StreamResume(i) ==
  /\ req[i].pc = "connecting"
  /\ \E connected \in BOOLEAN :
       req' = [ req EXCEPT ![i] =
                IF connected
                  THEN [ @ EXCEPT !.listeners = @ + 1, !.pc = "streaming" ]
                  ELSE establishFailed(@, "connect") ]
  /\ UNCHANGED << config, now, flow >>

\* server.connect has settled in delegateToMcpServer: fulfilled, and the
\* message goes to the server instance through onmessage and the wait
\* starts; or server.connect or onmessage throws, and the catch resolves.
Deliver(i) ==
  /\ req[i].pc = "delegating"
  /\ \E outcome \in { "ok", "connect", "onmessage" } :
       LET failed == delegateFailed(req[i].message, ConstructionError)
       IN req' = [ req EXCEPT ![i] =
            IF outcome = "ok"
              THEN [ @ EXCEPT
                       !.delivered = Append(@, req[i].message),
                       !.timeout = getTimeoutForMethod(req[i].message.method),
                       !.pc = "waiting" ]
              ELSE [ @ EXCEPT
                       !.delivered = IF outcome = "onmessage"
                                       THEN Append(@, req[i].message) ELSE @,
                       !.failure = outcome,
                       !.resolved = << failed >>,
                       !.reply = << respond(failed) >>,
                       !.trace = @ \o << "respond" >>,
                       !.pc = "done" ] ]
  /\ UNCHANGED << config, now, flow >>

\* The server instance of session i hands a message to the transport it
\* is connected to: at any time on a stream, and during the wait of a
\* delegation, once it has been given the inbound message.
ServerSend(i) ==
  /\ req[i].pc \in { "streaming", "waiting" }
  /\ Len(req[i].handed) < MaxMsgs
  /\ LET r == req[i]
         j == r.transport.sink
         inbound == IF r.delivered = << >> THEN NoBody ELSE r.delivered[1]
     IN \E m \in ServerOutputs(i, inbound, r.transport.kind = "http") :
          IF r.transport.kind = "http"
            THEN \E fails \in BOOLEAN :
                 LET out == send(r.transport, req[j].written, m, fails)
                 IN req' = [ req EXCEPT
                      ![i].handed = Append(@, [ message |-> m,
                                                open |-> ~r.transport.closed,
                                                thrown |-> out.thrown ]),
                      ![i].transport = out.transport,
                      ![i].onerrorCalls = @ + out.onerror,
                      ![j].written = out.written ]
            ELSE LET handedOver ==
                       [ req EXCEPT ![i].handed =
                           Append(@, [ message |-> m, open |-> TRUE,
                                       thrown |-> << >> ]) ]
                 IN req' = [ handedOver EXCEPT ![j] = delegateSend(@, m) ]
  /\ UNCHANGED << config, now, flow >>

\* The request of stream i emits 'error'.
RequestError(i) ==
  /\ req[i].pc \in { "connecting", "streaming" }
  /\ req[i].requestErrors < MaxRequestErrors
  /\ LET out == requestError(req[i].transport)
         j == req[i].transport.sink
         told == [ req EXCEPT ![i].transport = out.transport,
                              ![i].onerrorCalls = @ + out.onerror,
                              ![i].oncloseCalls = @ + out.onclose ]
     IN req' = [ told EXCEPT ![j].ended = @ + out.end,
                             ![i].requestErrors = @ + 1 ]
  /\ UNCHANGED << config, now, flow >>

\* The delegateTransport of session i is told of an error (onerror) during
\* the wait.
TransportError(i) ==
  /\ req[i].pc = "waiting"
  /\ LET j == req[i].transport.sink
     IN /\ Len(req[j].errorData) < MaxErrors
        /\ \E e \in TransportErrors :
             req' = [ req EXCEPT ![j].errorData = Append(@, e) ]
  /\ UNCHANGED << config, now, flow >>

\* The timer of delegateToMcpServer fires, `timeout` milliseconds after the
\* wait began: the outcome is chosen and handleMcpRequest answers.
Deadline(i) ==
  /\ req[i].pc = "waiting"
  /\ LET j == req[i].transport.sink
         response == resolve(req[i].message, req[j].responseData,
                             req[j].errorData)
     IN req' = [ req EXCEPT
          ![i].waited = req[i].timeout,
          ![i].resolved = << response >>,
          ![i].reply = << respond(response) >>,
          ![i].trace = @ \o << "respond" >>,
          ![i].pc = "done" ]
  /\ UNCHANGED << config, now, flow >>

\* The client goes away: the request emits 'close' and every listener
\* registered so far calls close() on the transport.
ClientDisconnect(i) ==
  /\ req[i].pc \in { "validating", "connecting", "streaming" }
  /\ ~req[i].disconnected
  /\ req' = Closes([ req EXCEPT ![i].disconnected = TRUE ], i,
                   req[i].listeners)
  /\ UNCHANGED << config, now, flow >>

\* The server instance of session i closes its transport.
ServerClose(i) ==
  /\ req[i].pc = "streaming"
  /\ req[i].serverCloses < MaxServerCloses
  /\ req' = Closes([ req EXCEPT ![i].serverCloses = @ + 1 ], i, 1)
  /\ UNCHANGED << config, now, flow >>

\* A second passes.
Tick ==
  /\ now < MaxClock
  /\ now' = now + 1
  /\ UNCHANGED << config, req, flow >>

\* initiateOAuthFlow is called: by the route GET /auth/oauth (routed), which
\* exists only when OAuth is enabled and without which the request ends in
\* the 404 handler, or by another user of the exported AuthService.
Initiate ==
  /\ flow.pc = "start"
  /\ \E organization \in QueryOrganizations, redirect \in RedirectUris,
        routed \in BOOLEAN :
       LET answer == IF routed /\ ~config.oauthEnabled
                       THEN ErrorBody(404, "Endpoint not found")
                       ELSE initiateOAuthFlow(config, organization, redirect)
       IN flow' = [ flow EXCEPT
            !.organization = organization, !.redirect = redirect,
            !.initRouted = routed,
            !.initRes = << answer >>,
            !.pc = IF "authUrl" \in DOMAIN answer.body
                     THEN "initiated" ELSE "refused" ]
  /\ UNCHANGED << config, now, req >>

\* handleOAuthCallback is called with `query`: by the route
\* GET /auth/callback (routed), registered only when OAuth is enabled, or
\* by another user of the exported AuthService.
Callback(query, redirected, routed) ==
  LET out == handleOAuthCallback(config, query)
      served == ~routed \/ config.oauthEnabled
  IN
  flow' = [ flow EXCEPT
    !.query = query, !.redirected = redirected, !.routed = routed,
    !.res = IF served THEN out.res
            ELSE << ErrorBody(404, "Endpoint not found") >>,
    !.stateOrganization = out.organization,
    !.tokenCalls = IF served /\ out.await THEN 1 ELSE 0,
    !.pc = IF served /\ out.await THEN "exchanging" ELSE "done" ]

\* The identity provider sends the user back with a code and the state
\* value of the authorization URL.
FollowRedirect ==
  /\ flow.pc = "initiated"
  /\ Callback([ code |-> Str("code-1"),
                state |-> queryDecode(flow.initRes[1].body.authUrl.state) ],
              TRUE, TRUE)
  /\ UNCHANGED << config, now, req >>

\* A caller requests /auth/callback on its own.
DirectCallback ==
  /\ flow.pc \in { "start", "initiated", "refused" }
  /\ \E code \in Codes, state \in DirectStates, routed \in BOOLEAN :
       Callback([ code |-> code, state |-> state ], FALSE, routed)
  /\ UNCHANGED << config, now, req >>

\* exchangeCodeForToken settles and handleOAuthCallback resumes.  The clock
\* may advance between the two Date.now() of the claims.
ExchangeReturn ==
  /\ flow.pc = "exchanging"
  /\ \E answer \in TokenEndpointAnswers, t2 \in { now, now + 1 } :
       /\ t2 <= MaxClock
       /\ now' = t2
       /\ LET out == completeOAuthCallback(config, flow.stateOrganization,
                                           answer, now, t2)
          IN flow' = [ flow EXCEPT !.tokenResponse = << answer >>,
                                   !.minted = out.minted, !.res = out.res,
                                   !.pc = "done" ]
  /\ UNCHANGED << config, req >>

\* The AuthService is constructed with any AuthConfig; no request yet.
Init ==
  /\ config \in { c \in AuthConfigs :
                    /\ c.azureClientId = Str("client-id")
                    /\ c.azureClientSecret = Str("client-secret") }
  /\ now = 0
  /\ req = [ i \in Slots |-> Idle ]
  /\ flow = NoFlow

Next ==
  \/ \E i \in Slots : Arrive(i)
  \/ \E i \in Slots : Middleware(i)
  \/ \E i \in Slots : Authenticate(i)
  \/ \E i \in Slots : ValidatePATReturn(i)
  \/ \E i \in Slots : HandleMcp(i)
  \/ Tick

Spec == Init /\ [][Next]_vars


\* ------------------------------------------------- reading a request's run
\* The steps of request r so far, as a set.
Steps(r) == { r.trace[k] : k \in 1 .. Len(r.trace) }

\* AuthService.authenticate has run for r (up to its first await).
Entered(r) == "authenticate" \in Steps(r)

\* The Authorization header of r is absent or does not start with 'Bearer '.
NoBearer(r) ==
  ~r.headers.authorization.present
    \/ r.headers.authorization.prefix # "Bearer "

\* A string-or-undefined value that is absent or empty.
Blank(x) == x \in { Undefined, << >> }

\* The steps of the protocol layer.
ProtocolSteps == { "express.json", "new McpServer" }

\* --------------------------------------------------------------------- C1
\* C1: for every /mcp request, no protocol-layer step (parsing the body as
\* a protocol message, constructing a server instance) happens before the
\* request's authentication has succeeded, i.e. before the gateway called
\* next().
\* Stated for the configurations loadConfig lets the server start with.
C1_AuthenticationPrecedesProtocol ==
  loadConfigAccepts(config) =>
    \A i \in Slots :
      \A k \in 1 .. Len(req[i].trace) :
        req[i].trace[k] \in ProtocolSteps =>
          \E j \in 1 .. (k - 1) : req[i].trace[j] = "next"

C3_IdentityWellFormed ==
  loadConfigAccepts(config) =>
    \A i \in Slots :
      req[i].nextCalls > 0 =>
        /\ Cardinality(req[i].auth) = 1
        /\ \A id \in req[i].auth :
             /\ ~Blank(id.organization)
             /\ id.token.kind = "opaque" => ~Blank(id.token.text)

\* --------------------------------------------------------------------- C4
\* C4: when the downstream validation call of a request fails (401, 403,
\* network), the request is answered 401 'Invalid Personal Access Token'
\* with no identity bound, and exactly one validation call was made for it;
\* no request ever has more than one validation call.
C4_InvalidCredentialNoRetry ==
  \A i \in Slots :
    /\ req[i].validateCalls <= 1
    /\ Len(req[i].downstream) <= 1
    /\ (req[i].downstream # << >> /\ req[i].downstream[1] # "ok") =>
         /\ req[i].pc = "done"
         /\ req[i].res = << Reply(401, "Invalid Personal Access Token") >>
         /\ req[i].validateCalls = 1
         /\ req[i].auth = {}
         /\ req[i].nextCalls = 0

\* A Bearer token with an organization whose validation call failed on the
\* network.
C4_Witness ==
  \E i \in Slots :
    /\ req[i].downstream = << "network" >>
    /\ req[i].headers.xAdoOrganization = Str("contoso")
    /\ req[i].pc = "done"

\* --------------------------------------------------------------------- C5
\* C5: under the credential-token scheme a request with a Bearer token and
\* no x-ado-organization header is answered 400 'Missing
\* x-ado-organization header' and no validation call is ever made for it.
C5_MissingOrganizationFailsFast ==
  \A i \in Slots :
    (Entered(req[i]) /\ req[i].scheme = "pat"
       /\ Blank(req[i].headers.xAdoOrganization)) =>
      /\ req[i].pc = "done"
      /\ req[i].res = << Reply(400, "Missing x-ado-organization header") >>
      /\ req[i].validateCalls = 0
      /\ req[i].downstream = << >>
      /\ "validatePAT" \notin Steps(req[i])
      /\ req[i].auth = {}

\* The personal access token without an organization header was rejected.
C5_Witness ==
  \E i \in Slots :
    /\ Entered(req[i])
    /\ req[i].scheme = "pat"
    /\ req[i].headers.authorization.rest = Opaque(Str("pat-1"))
    /\ req[i].headers.xAdoOrganization = Undefined
    /\ req[i].pc = "done"


\* --------------------------------------------------------------------- C6
\* C6: with both schemes enabled, a request whose Bearer token fails the
\* local verification in authenticate is not rejected there; it gets the
\* credential-token scheme's outcome: 400 without an organization header,
\* otherwise one validation call, and then the credential-token identity
\* (the presented token itself) or 401 'Invalid Personal Access Token'.
C6_FailedVerificationFallsThrough ==
  \A i \in Slots :
    LET r == req[i] IN
    (Entered(r) /\ config.patEnabled /\ config.oauthEnabled
       /\ r.localVerify = "failed") =>
      IF Blank(r.headers.xAdoOrganization)
        THEN /\ r.res = << Reply(400, "Missing x-ado-organization header") >>
             /\ r.validateCalls = 0
             /\ r.auth = {}
        ELSE /\ r.validateCalls = 1
             /\ \/ r.pc = "validating" /\ r.res = << >> /\ r.auth = {}
                \/ /\ r.downstream = << "ok" >>
                   /\ r.res = << >>
                   /\ r.nextCalls = 1
                   /\ r.auth = { [ type |-> "pat",
                                   token |-> r.headers.authorization.rest,
                                   organization |-> r.headers.xAdoOrganization,
                                   userId |-> Undefined, claims |-> {} ] }
                \/ /\ Len(r.downstream) = 1 /\ r.downstream[1] # "ok"
                   /\ r.res = << Reply(401, "Invalid Personal Access Token") >>
                   /\ r.auth = {}

\* A token signed with another secret was validated downstream and the
\* request handed on under the credential-token scheme.
C6_Witness ==
  \E i \in Slots :
    /\ config.patEnabled /\ config.oauthEnabled
    /\ req[i].localVerify = "failed"
    /\ req[i].headers.authorization.rest.sig = Str("s2")
    /\ req[i].downstream = << "ok" >>
    /\ req[i].nextCalls = 1

\* --------------------------------------------------------------------- C7
\* C7: when the scheme a Bearer request falls to is disabled (no scheme is
\* enabled, or local verification did not pass and the credential-token
\* scheme is disabled), the gateway answers its 'No valid authentication
\* method found' failure and attempts no validation: no validation call,
\* no identity, no next().  An identity of a scheme is bound only when the
\* configuration enables that scheme.
C7_DisabledSchemeNotAttempted ==
  \A i \in Slots :
    LET r == req[i] IN
    /\ (Entered(r) /\ ~NoBearer(r) /\ ~config.patEnabled
          /\ r.localVerify # "passed") =>
         /\ r.pc = "done"
         /\ r.res = << Reply(401, "No valid authentication method found") >>
         /\ r.validateCalls = 0
         /\ r.auth = {}
         /\ r.nextCalls = 0
    /\ ~config.oauthEnabled => r.localVerify = "not-run"
    /\ \A id \in r.auth :
         /\ id.type = "pat" => config.patEnabled
         /\ id.type = "oauth" => config.oauthEnabled

\* Under a configuration loadConfig accepts, a token that failed local
\* verification met a disabled credential-token scheme.
C7_Witness ==
  \E i \in Slots :
    /\ loadConfigAccepts(config)
    /\ ~config.patEnabled
    /\ req[i].localVerify = "failed"
    /\ req[i].pc = "done"

\* --------------------------------------------------------------------- C8
\* C8: under the federated scheme (authenticateWithOAuth verified the
\* token) the identity's organization is the token's organization claim
\* when the claim is there (a non-empty string), otherwise the
\* x-ado-organization header; with neither, the request is answered 400
\* 'Organization not found in token or headers' and no identity is bound.
C8_FederatedOrganization ==
  \A i \in Slots :
    LET r == req[i]
        claim == r.headers.authorization.rest.payload.organization
        header == r.headers.xAdoOrganization
    IN
    (Entered(r) /\ r.scheme = "oauth"
       /\ r.res # << Reply(401, "Invalid or expired token") >>) =>
      IF ~Blank(claim)
        THEN Cardinality(r.auth) = 1
               /\ \A id \in r.auth : id.organization = claim
      ELSE IF ~Blank(header)
        THEN Cardinality(r.auth) = 1
               /\ \A id \in r.auth : id.organization = header
      ELSE /\ r.res = << Reply(400, "Organization not found in token or headers") >>
           /\ r.auth = {}
           /\ r.nextCalls = 0

\* A verified token with an organization claim arrived together with a
\* different organization header and was handed on.
C8_Witness ==
  \E i \in Slots :
    /\ req[i].scheme = "oauth"
    /\ req[i].headers.authorization.rest.payload.organization = Str("fabrikam")
    /\ req[i].headers.xAdoOrganization = Str("contoso")
    /\ req[i].nextCalls = 1

\* --------------------------------------------------------------------- C9
\* C9: the identity bound under the federated scheme has the accessToken
\* claim of the session token as its token, never the session token
\* itself, and keeps the subject and the whole claim set; the identity
\* bound under the credential-token scheme has neither subject nor claims.
\* Stated for the configurations loadConfig lets the server start with.
C9_FederatedTokenIsEmbeddedCredential ==
  loadConfigAccepts(config) =>
    \A i \in Slots :
      LET presented == req[i].headers.authorization.rest IN
      \A id \in req[i].auth :
        /\ id.type = "oauth" =>
             /\ id.token = Opaque(presented.payload.accessToken)
             /\ id.token # presented
             /\ id.userId = presented.payload.sub
             /\ id.claims = { presented.payload }
        /\ id.type = "pat" =>
             /\ id.userId = Undefined
             /\ id.claims = {}

\* ------------------------------------------------------------ OAuth flow
\* The AuthService is constructed with any AuthConfig; no flow yet.
OAuthInit ==
  /\ config \in AuthConfigs
  /\ now = 0
  /\ req = [ i \in Slots |-> Idle ]
  /\ flow = NoFlow

OAuthNext ==
  \/ Initiate
  \/ FollowRedirect
  \/ DirectCallback
  \/ ExchangeReturn
  \/ Tick

OAuthSpec == OAuthInit /\ [][OAuthNext]_vars

\* ---------------------------------------------------------------- sessions
\* Bound on the number of sessions open at the same time.
MaxSessions == 2

\* The configuration of a server with both schemes enabled.
BothSchemes ==
  [ patEnabled |-> TRUE, oauthEnabled |-> TRUE, jwtSecret |-> Str("s1"),
    azureClientId |-> Str("client-id"),
    azureClientSecret |-> Str("client-secret") ]

\* The request as the gateway hands it to the route handler, if it does.
Admitted(method, body, headers) ==
  LET gated == Gate(Parsed(Incoming(method, body, headers)), BothSchemes, 0, 0)
  IN IF gated.pc = "validating" THEN Validated(gated, "ok") ELSE gated

\* The requests the gateway lets through.
AdmittedRequests ==
  { r \in { Admitted(method, body, headers) :
              method \in { "GET", "POST" }, body \in { "none", "json" },
              headers \in Headers } :
      r.pc = "handler" /\ (r.method = "GET" => r.body = "none") }

\* The requests authenticate has suspended on the downstream validation
\* call.
AwaitingRequests ==
  { r \in { Gate(Parsed(Incoming(method, body, headers)), BothSchemes, 0, 0) :
              method \in { "GET", "POST" }, body \in { "none", "json" },
              headers \in Headers } :
      r.pc = "validating" /\ (r.method = "GET" => r.body = "none") }

\* One request has passed the gateway, or is waiting in it for the
\* downstream validation call.
McpInit ==
  /\ config = BothSchemes
  /\ now = 0
  /\ req \in [ { 1 } -> AdmittedRequests \cup AwaitingRequests ]
  /\ flow = NoFlow

McpNext ==
  \/ \E i \in DOMAIN req : HandleMcp(i)
  \/ \E i \in DOMAIN req : StreamResume(i)
  \/ \E i \in DOMAIN req : Deliver(i)
  \/ \E i \in DOMAIN req : ServerSend(i)
  \/ \E i \in DOMAIN req : TransportError(i)
  \/ \E i \in DOMAIN req : Deadline(i)
  \/ \E i \in DOMAIN req : ClientDisconnect(i)
  \/ \E i \in DOMAIN req : ServerClose(i)
  \/ \E i \in DOMAIN req : RequestError(i)
  \/ \E i \in DOMAIN req : ValidatePATReturn(i)

McpSpec == McpInit /\ [][McpNext]_vars

\* The event loop runs what is ready: a downstream call that has been made
\* settles, next() enters the route handler, the continuation of a settled
\* server.connect runs, and a timer that was set fires.  Nothing makes a
\* peer disconnect or a server instance send or close.
McpLiveSpec ==
  /\ McpSpec
  /\ WF_vars(\E i \in DOMAIN req : ValidatePATReturn(i))
  /\ WF_vars(\E i \in DOMAIN req : HandleMcp(i))
  /\ WF_vars(\E i \in DOMAIN req : StreamResume(i))
  /\ WF_vars(\E i \in DOMAIN req : Deliver(i))
  /\ WF_vars(\E i \in DOMAIN req : Deadline(i))

\* The headers of two callers: a personal access token for contoso, and a
\* session token for fabrikam.
ConcurrentHeaders ==
  { [ authorization |-> [ present |-> TRUE, prefix |-> "Bearer ",
                          rest |-> Opaque(Str("pat-1")) ],
      xAdoOrganization |-> Str("contoso") ],
    [ authorization |->
        [ present |-> TRUE, prefix |-> "Bearer ",
          rest |-> jwtSign(Claims(Str("user1"), Str("ado-token"),
                                  Str("fabrikam"), 0, 9), Str("s1")) ],
      xAdoOrganization |-> Undefined ] }

\* The bodies of the concurrent callers: a Request and a Notification.
ConcurrentMessages ==
  { m \in Messages : m.method = << "tools/call" >> /\ m.id # Undefined } \cup
  { m \in Messages : m.method = << "notifications/", "initialized" >>
                       /\ m.id = Undefined }

\* The requests of the concurrent callers: GET, or POST with one of the
\* two bodies and with or without 'Upgrade: sse'; contoso's or fabrikam's.
ConcurrentRequests ==
  LET admitted == { a \in AdmittedRequests : a.headers \in ConcurrentHeaders }
  IN { Settled(r, Undefined, NoBody) : r \in { a \in admitted : a.method = "GET" } }
     \cup
     { Settled(r, upgradeHeader, message) :
         r \in { a \in admitted : a.method = "POST" /\ a.body = "json" },
         upgradeHeader \in { Undefined, Str("sse") },
         message \in ConcurrentMessages }

\* MaxSessions requests have passed the gateway: the first one is
\* contoso's and the others are fabrikam's.
ConcurrentInit ==
  /\ config = BothSchemes
  /\ now = 0
  /\ req \in [ 1 .. MaxSessions -> ConcurrentRequests ]
  /\ \A i \in DOMAIN req :
       (i = 1) <=> (req[i].headers.xAdoOrganization = Str("contoso"))
  /\ flow = NoFlow

ConcurrentNext ==
  \/ \E i \in DOMAIN req : HandleMcp(i)
  \/ \E i \in DOMAIN req : StreamResume(i)
  \/ \E i \in DOMAIN req : Deliver(i)
  \/ \E i \in DOMAIN req : ServerSend(i)
  \/ \E i \in DOMAIN req : TransportError(i)
  \/ \E i \in DOMAIN req : Deadline(i)
  \/ \E i \in DOMAIN req : ClientDisconnect(i)
  \/ \E i \in DOMAIN req : ServerClose(i)
  \/ \E i \in DOMAIN req : RequestError(i)

ConcurrentSpec == ConcurrentInit /\ [][ConcurrentNext]_vars

\* -------------------------------------------------------------------- C10
\* C10: for every organization org for which /auth/oauth returns a URL,
\* the state parameter of the URL decodes (query decoding, then
\* JSON.parse) to exactly { organization: org }; and when that state comes
\* back to /auth/callback with a code the token endpoint accepts (under a
\* configuration loadConfig lets the server start with), one session token
\* is minted and the organization of the response and of the token is org.
C10_StateRoundTrip ==
  /\ flow.pc # "start" /\ flow.initRes # << >>
       /\ "authUrl" \in DOMAIN flow.initRes[1].body =>
       jsonParseOrganization(queryDecode(flow.initRes[1].body.authUrl.state))
         = [ ok |-> TRUE, organization |-> flow.organization ]
  /\ (flow.redirected /\ flow.pc = "done" /\ loadConfigAccepts(config)
        /\ flow.tokenResponse # << >> /\ flow.tokenResponse[1].ok) =>
       /\ Len(flow.res) = 1
       /\ flow.res[1].status = 200
       /\ Cardinality(flow.minted) = 1
       /\ "organization" \in DOMAIN flow.res[1].body
       /\ flow.res[1].body.organization = flow.organization
       /\ \A jwtToken \in flow.minted :
            jwtToken.payload.organization = flow.organization

\* An organization name with a quote and a percent sign went through the
\* whole flow and a session token was returned for it.
C10_Witness ==
  /\ flow.redirected
  /\ flow.organization = << "\"", "%" >>
  /\ flow.pc = "done"
  /\ flow.minted # {}
  /\ flow.res[1].status = 200

\* ---------------------------------------------------- reading the OAuth flow
\* The configuration handleOAuthCallback asks for.
CallbackConfigured(c) ==
  c.oauthEnabled /\ Truthy(c.azureClientSecret) /\ Truthy(c.azureClientId)

\* The keys of a successful answer of handleOAuthCallback.
TokenKeys == { "token", "expires_in", "organization" }

\* -------------------------------------------------------------------- C11
\* C11: handleOAuthCallback, called on a configured service without a
\* code, answers 400 'Authorization code not provided' and the token
\* endpoint is not called; whenever the token endpoint does not answer
\* with success (network failure, 400, 500) it answers 400 'Failed to
\* exchange authorization code'; and whenever its answer is a failure, no
\* session token was minted and the body has no token, expires_in or
\* organization.  No token exists while the exchange is pending.
C11_ExchangeFailures ==
  /\ flow.pc \in { "start", "initiated", "refused", "exchanging" } =>
       flow.minted = {} /\ flow.res = << >>
  /\ flow.pc = "done" =>
       /\ Len(flow.res) = 1
       /\ ((flow.routed => config.oauthEnabled) /\ CallbackConfigured(config)
             /\ ~Truthy(flow.query.code)) =>
            /\ flow.res = << ErrorBody(400, "Authorization code not provided") >>
            /\ flow.tokenCalls = 0
            /\ flow.tokenResponse = << >>
       /\ (flow.tokenResponse # << >> /\ ~flow.tokenResponse[1].ok) =>
            flow.res = << ErrorBody(400, "Failed to exchange authorization code") >>
       /\ flow.res[1].status # 200 =>
            /\ flow.minted = {}
            /\ DOMAIN flow.res[1].body \cap TokenKeys = {}
       /\ flow.res[1].status = 200 <=> flow.minted # {}

\* The token endpoint answered 500 to the one exchange call of a callback
\* that came with a code.
C11_Witness ==
  /\ flow.pc = "done"
  /\ loadConfigAccepts(config)
  /\ flow.query.code = Str("code-1")
  /\ flow.tokenCalls = 1
  /\ flow.tokenResponse # << >>
  /\ flow.tokenResponse[1].status = "500"

\* -------------------------------------------------------------------- C12
\* C12: initiateOAuthFlow answers 501 'OAuth is not configured', and no
\* authorization URL, whenever OAuth is disabled or the client id is not
\* configured, whether or not an organization was supplied (the check
\* comes first); configured and without an organization it answers 400
\* 'organization parameter is required'; and with OAuth disabled no answer
\* of /auth/oauth or /auth/callback carries an authUrl or a token.
C12_NotConfigured ==
  /\ flow.initRes # << >> =>
       LET called == flow.initRouted => config.oauthEnabled
           configured == config.oauthEnabled /\ Truthy(config.azureClientId)
       IN /\ (called /\ ~configured) =>
               flow.initRes = << ErrorBody(501, "OAuth is not configured") >>
          /\ (called /\ configured /\ ~Truthy(flow.organization)) =>
               flow.initRes =
                 << ErrorBody(400, "organization parameter is required") >>
          /\ ~configured => "authUrl" \notin DOMAIN flow.initRes[1].body
  /\ ~config.oauthEnabled =>
       /\ flow.minted = {}
       /\ \A k \in 1 .. Len(flow.res) :
            /\ flow.res[k].status # 200
            /\ DOMAIN flow.res[k].body \cap TokenKeys = {}
       /\ flow.routed /\ flow.pc = "done" =>
            flow.res = << ErrorBody(404, "Endpoint not found") >>
       /\ flow.initRouted /\ flow.initRes # << >> =>
            flow.initRes = << ErrorBody(404, "Endpoint not found") >>

\* initiateOAuthFlow ran with OAuth enabled, no client id and no
\* organization, and answered 501.
C12_Witness ==
  /\ config.oauthEnabled
  /\ ~Truthy(config.azureClientId)
  /\ flow.organization = Undefined
  /\ flow.initRes = << ErrorBody(501, "OAuth is not configured") >>

\* -------------------------------------------------------------------- C13
\* C13: for every successful handleOAuthCallback, exp - iat of the minted
\* session token equals the expires_in the token endpoint reported, and
\* the expires_in of the response is that same value.
\* Stated for the configurations loadConfig lets the server start with.
C13_LifetimePreserved ==
  (loadConfigAccepts(config) /\ flow.pc = "done" /\ flow.minted # {}) =>
    /\ flow.res[1].body.expires_in = flow.tokenResponse[1].expires_in
    /\ \A jwtToken \in flow.minted :
         jwtToken.payload.exp - jwtToken.payload.iat
           = flow.tokenResponse[1].expires_in

\* ------------------------------------------------------ reading a session
\* The route handler of r has run.
Handled(r) == r.servers > 0

\* delegateToMcpServer has resolved for r.
Resolved(r) == r.resolved # << >> /\ r.failure = "none"

\* The events a stream owes its caller: one per message send took without
\* throwing, in that order.
RECURSIVE EventsOf(_)
EventsOf(handed) ==
  IF handed = << >> THEN << >>
  ELSE (IF Head(handed).thrown = << >>
          THEN << [ data |-> Head(handed).message ] >>
        ELSE << >>) \o EventsOf(Tail(handed))

\* -------------------------------------------------------------------- C14
\* C14: when a delegation resolves, a non-empty error buffer decides: the
\* outcome is the error response (id of the inbound message, -32603,
\* 'Server transport error') wrapping the first recorded error, whatever
\* the message buffer holds; otherwise a non-empty message buffer decides
\* and the outcome is its first message, unchanged; the HTTP answer is that
\* outcome.
C14_ResolutionPriority ==
  \A i \in DOMAIN req :
    LET r == req[i] IN
    Resolved(r) =>
      /\ Len(r.errorData) > 0 =>
           /\ r.resolved =
                << Value(ErrorResponse(r.message.id,
                                       Str("Server transport error"),
                                       r.errorData[1])) >>
           /\ r.reply = << HttpJson(200, r.resolved[1].value) >>
      /\ (Len(r.errorData) = 0 /\ Len(r.responseData) > 0) =>
           /\ r.resolved = << Value(r.responseData[1]) >>
           /\ r.reply = << HttpJson(200, r.responseData[1]) >>

\* A delegation resolved with two different errors and two different
\* messages in its buffers.
C14_Witness ==
  \E i \in DOMAIN req :
    /\ Resolved(req[i])
    /\ Len(req[i].errorData) = 2
    /\ req[i].errorData[1] # req[i].errorData[2]
    /\ Len(req[i].responseData) = 2
    /\ req[i].responseData[1] # req[i].responseData[2]

\* -------------------------------------------------------------------- C15
\* C15: a delegation whose inbound message is a Notification (a method, no
\* id) and whose buffers are both empty at resolution resolves with null,
\* and the HTTP answer is 204 without a body; a delegation that resolves
\* with a response whose result is null answers 200 with that response as
\* its JSON body.
C15_NotificationNoResponse ==
  \A i \in DOMAIN req :
    LET r == req[i] IN
    /\ (Resolved(r) /\ r.message.method # Undefined /\ r.message.id = Undefined
          /\ r.responseData = << >> /\ r.errorData = << >>) =>
         /\ r.resolved = << Null >>
         /\ r.reply = << NoContent >>
    /\ (Resolved(r) /\ r.errorData = << >> /\ r.responseData # << >>
          /\ r.responseData[1].kind = "null-result") =>
         r.reply = << HttpJson(200, r.responseData[1]) >>

\* -------------------------------------------------------------------- C16
\* C16: a delegation whose inbound message is a Request (it has an id) and
\* whose buffers are both empty at resolution resolves with the timeout
\* error response, whose id is the id of the inbound message.
C16_TimeoutCarriesId ==
  \A i \in DOMAIN req :
    LET r == req[i] IN
    (Resolved(r) /\ r.message.id # Undefined
       /\ r.responseData = << >> /\ r.errorData = << >>) =>
      /\ r.resolved =
           << Value(ErrorResponse(r.message.id,
                      << "Server timeout: no response for " >> \o r.message.method,
                      Undefined)) >>
      /\ r.reply = << HttpJson(200, r.resolved[1].value) >>

C18_SessionIsolation ==
  \A i \in DOMAIN req :
    LET r == req[i] IN
    /\ r.servers = (IF Handled(r) THEN 1 ELSE 0)
    /\ r.transport # NoTransport => r.transport.sink = i
    /\ \A k \in 1 .. Len(r.written) : r.written[k].data.from = i
    /\ \A k \in 1 .. Len(r.responseData) : r.responseData[k].from = i
    /\ \A k \in 1 .. Len(r.reply) :
         \A v \in { r.reply[k].json[n] : n \in 1 .. Len(r.reply[k].json) } :
           v.from \in { 0, i }
    /\ Len(r.written) + Len(r.responseData) <= Len(r.handed)

\* Two streams of different organizations are open and each has been
\* written to.
C18_Witness ==
  /\ req[1].transport.kind = "http" /\ req[2].transport.kind = "http"
  /\ \A id1 \in req[1].auth : \A id2 \in req[2].auth :
       id1.organization # id2.organization
  /\ req[1].written # << >> /\ req[2].written # << >>
  /\ ~req[1].transport.closed /\ ~req[2].transport.closed

C20_CloseIdempotent ==
  \A i \in DOMAIN req :
    LET r == req[i] IN
    r.transport.kind = "http" =>
      /\ r.ended <= 1
      /\ r.closeCalls = 0 =>
           r.ended = 0 /\ r.oncloseCalls = 0 /\ ~r.transport.closed
      /\ r.closeCalls >= 1 =>
           r.ended = 1 /\ r.oncloseCalls = 1 /\ r.transport.closed

\* close has been called three times on one transport: by both listeners
\* and by the server instance.
C20_Witness ==
  \E i \in DOMAIN req :
    /\ req[i].closeCalls = 3
    /\ req[i].disconnected
    /\ req[i].listeners = 2
    /\ req[i].serverCloses = 1

\* -------------------------------------------------------------------- C21
\* A delegation of r has failed: attaching the transport or delivering the
\* message threw, an error was recorded, or the wait for the answer to a
\* Request ended with nothing from the server instance.
DelegationFailed(r) ==
  /\ r.transport.kind = "delegate"
  /\ r.pc = "done"
  /\ \/ r.failure \in { "connect", "onmessage" }
     \/ r.errorData # << >>
     \/ r.message.id # Undefined /\ r.responseData = << >>

\* C21: every failure inside a delegation (server.connect throws,
\* onmessage throws, a transport error is recorded, the deadline of a
\* Request passes with no output) is answered HTTP 200 with an error
\* response whose code is -32603 and whose id is the id of the inbound
\* message.
C21_DelegationFailureIsErrorResponse ==
  \A i \in DOMAIN req :
    LET r == req[i] IN
    DelegationFailed(r) =>
      /\ Len(r.resolved) = 1
      /\ ~r.resolved[1].null
      /\ r.resolved[1].value.kind = "error"
      /\ r.resolved[1].value.code = -32603
      /\ r.resolved[1].value.id = r.message.id
      /\ r.reply = << HttpJson(200, r.resolved[1].value) >>

\* -------------------------------------------------------------------- C22
\* C22: a POST /mcp whose body does not parse as JSON is answered HTTP 400
\* with the parse-error envelope (id null, code -32700).
C22_MalformedBodyParseError ==
  \A i \in DOMAIN req :
    LET r == req[i] IN
    (loadConfigAccepts(config) /\ r.method = "POST" /\ r.body = "malformed"
       /\ r.pc = "done") =>
      /\ Len(r.res) = 1
      /\ r.res[1].status = 400
      /\ r.res[1] = HttpJson(400, ParseError(Str("Unexpected end of JSON input")))

\* -------------------------------------------------------------------- C23
\* The construction of the session of r has failed: making or configuring
\* the server instance, or connecting it to its transport, threw.
ConstructionFailed(r) == r.failure \in { "construct", "connect" }

\* C23: a failure while a session is constructed is confined to its
\* connection: the handler catches it and ends, the connection (if its
\* peer is still there) gets exactly one error response, and the step in
\* which the failure happens leaves every other session as it was.
C23_ConstructionFailureConfined ==
  /\ [](\A i \in DOMAIN req :
          LET r == req[i] IN
          ConstructionFailed(r) =>
            /\ r.pc = "done"
            /\ ~r.disconnected =>
                 /\ Len(r.reply) = 1
                 /\ Len(r.reply[1].json) = 1
                 /\ r.reply[1].json[1].kind \in { "plain-error", "error" }
                 /\ r.reply[1].json[1].from = 0)
  /\ [][\A i \in DOMAIN req :
          (~ConstructionFailed(req[i]) /\ ConstructionFailed(req'[i])) =>
            \A j \in DOMAIN req \ { i } : req'[j] = req[j]]_vars

\* The construction of contoso's session failed and was answered while
\* fabrikam's stream was open and had carried an event.
C23_Witness ==
  /\ ConstructionFailed(req[1])
  /\ req[1].reply # << >>
  /\ req[2].transport.kind = "http"
  /\ req[2].pc = "streaming"
  /\ req[2].written # << >>
  /\ ~req[2].transport.closed

\* -------------------------------------------------------------------- C24
\* The answers of the gateway to a request it does not let through.
GatewayFailures ==
  { Reply(401, "Missing or invalid Authorization header"),
    Reply(401, "Missing or invalid Authorization header. Expected: Bearer <PAT_TOKEN>"),
    Reply(400, "Missing x-ado-organization header"),
    Reply(401, "Invalid Personal Access Token"),
    Reply(401, "Invalid or expired token"),
    Reply(400, "Organization not found in token or headers"),
    Reply(401, "No valid authentication method found") }

\* C24: every answer of the gateway to a request it does not let through
\* is one of seven fixed answers, each with a 4xx status and a fixed
\* reason; the answer to a request whose downstream validation fails is
\* the same whatever the validation failed with (401, 403, network), and
\* the configuration the gateway answers under is the same at every
\* logging level of the server configuration.
C24_FailuresUniform ==
  \A i \in DOMAIN req :
    LET r == req[i] IN
    /\ Entered(r) =>
         \A k \in 1 .. Len(r.res) :
           r.res[k] \in GatewayFailures /\ r.res[k].status \in 400 .. 499
    /\ r.pc = "authenticate" =>
         \A level \in LogLevels :
           AuthService([ auth |-> config, logging |-> [ level |-> level ] ])
             = config
    /\ r.pc = "validating" =>
         \A d \in DownstreamOutcomes \ { "ok" } :
           LET refused == Validated(r, d) IN
           /\ refused.res = << Reply(401, "Invalid Personal Access Token") >>
           /\ refused.auth = {}
           /\ refused.nextCalls = 0
           /\ refused.pc = "done"
    /\ (r.downstream # << >> /\ r.downstream[1] # "ok") =>
         r.res = << Reply(401, "Invalid Personal Access Token") >>

\* A request was refused because the downstream API could not be reached.
C24_Witness ==
  \E i \in DOMAIN req :
    /\ req[i].downstream = << "network" >>
    /\ req[i].res = << Reply(401, "Invalid Personal Access Token") >>
    /\ req[i].pc = "done"

HandlerRan(r) == r.nextCalls > 0 /\ r.pc # "handler"

\* C26: a POST /mcp goes to handleMcpConnection exactly when its Upgrade
\* header is 'sse', whatever its Accept header; one that does gets an
\* HttpTransport, no delegation (nothing delivered, no wait, no outcome)
\* and no 200 or 204 answer, and one that does not gets no HttpTransport.
C26_UpgradeOnlyByHeader ==
  \A i \in DOMAIN req :
    LET r == req[i] IN
    (r.method = "POST" /\ HandlerRan(r)) =>
      /\ r.upgrade <=> (r.upgradeHeader = Str("sse"))
      /\ r.upgrade =>
           /\ r.transport.kind # "delegate"
           /\ r.failure = "none" => r.transport.kind = "http" /\ r.reply = << >>
           /\ r.delivered = << >> /\ r.responseData = << >>
           /\ r.timeout = 0 /\ r.resolved = << >>
           /\ \A k \in 1 .. Len(r.reply) : r.reply[k].status \notin { 200, 204 }
      /\ ~r.upgrade => r.transport.kind # "http"

\* A POST that accepts text/event-stream and has no Upgrade header was
\* delegated and answered.
C26_Witness ==
  \E i \in DOMAIN req :
    /\ req[i].method = "POST"
    /\ includes(req[i].accept, "text/event-stream")
    /\ req[i].upgradeHeader = Undefined
    /\ req[i].transport.kind = "delegate"
    /\ req[i].reply # << >>

\* -------------------------------------------------------------------- C27
\* C27: a closed HttpTransport stays closed; no step then adds an event or
\* an answer to its response, ends it again or raises onclose again; and
\* every send called on a closed transport throws 'Transport is closed'.
C27_ClosedIsTerminal ==
  /\ [][\A i \in DOMAIN req :
          (req[i].transport.kind = "http" /\ req[i].transport.closed) =>
            /\ req'[i].transport.closed
            /\ req'[i].written = req[i].written
            /\ req'[i].reply = req[i].reply
            /\ req'[i].ended = req[i].ended
            /\ req'[i].oncloseCalls = req[i].oncloseCalls]_vars
  /\ [](\A i \in DOMAIN req :
          req[i].transport.kind = "http" =>
            \A k \in 1 .. Len(req[i].handed) :
              ~req[i].handed[k].open =>
                req[i].handed[k].thrown = << TransportIsClosed >>)

\* A stream carried an event, was closed, and a message handed to send
\* afterwards was refused.
C27_Witness ==
  \E i \in DOMAIN req :
    /\ req[i].transport.kind = "http"
    /\ req[i].transport.closed
    /\ Len(req[i].handed) = 2
    /\ req[i].handed[1].thrown = << >>
    /\ req[i].handed[2].thrown = << TransportIsClosed >>
    /\ Len(req[i].written) = 1

\* -------------------------------------------------------------------- C28
\* C28: once a write has failed inside send on a stream, the transport is
\* closed: onclose has been raised, the response is ended, and every
\* message handed to send afterwards is refused with 'Transport is
\* closed'.
C28_WriteFailureCloses ==
  \A i \in DOMAIN req :
    LET r == req[i] IN
    r.transport.kind = "http" =>
      \A k \in 1 .. Len(r.handed) :
        r.handed[k].thrown = << WriteError >> =>
          /\ r.transport.closed
          /\ r.oncloseCalls = 1
          /\ r.ended = 1
          /\ \A n \in (k + 1) .. Len(r.handed) :
               r.handed[n].thrown = << TransportIsClosed >>

\* -------------------------------------------------------------------- C29
\* The number of writes that failed among the messages handed to send.
RECURSIVE WriteFailures(_)
WriteFailures(handed) ==
  IF handed = << >> THEN 0
  ELSE (IF Head(handed).thrown = << WriteError >> THEN 1 ELSE 0)
         + WriteFailures(Tail(handed))

\* C29: an 'error' event of a stream's request raises onerror once and
\* changes nothing else: the transport is as open or closed as before,
\* the response is not ended or written to, onclose is not raised and
\* close is not called; and onerror has been raised exactly once per
\* 'error' event and per failed write.
C29_ErrorReportedNotClosed ==
  /\ [][\A i \in DOMAIN req :
          req'[i].requestErrors # req[i].requestErrors =>
            /\ req'[i].onerrorCalls = req[i].onerrorCalls + 1
            /\ req'[i].transport = req[i].transport
            /\ req'[i].ended = req[i].ended
            /\ req'[i].written = req[i].written
            /\ req'[i].oncloseCalls = req[i].oncloseCalls
            /\ req'[i].closeCalls = req[i].closeCalls
            /\ req'[i].pc = req[i].pc]_vars
  /\ [](\A i \in DOMAIN req :
          req[i].transport.kind = "http" =>
            req[i].onerrorCalls
              = req[i].requestErrors + WriteFailures(req[i].handed))

\* The request of an open stream has emitted 'error' and the stream has
\* carried an event since.
C29_Witness ==
  \E i \in DOMAIN req :
    /\ req[i].pc = "streaming"
    /\ req[i].requestErrors = 1
    /\ req[i].onerrorCalls = 1
    /\ ~req[i].transport.closed
    /\ req[i].ended = 0
    /\ req[i].written # << >>

\* -------------------------------------------------------------------- C30
\* C30: whenever the peer of a stream has disconnected, the stream's
\* transport is eventually closed, with the response ended and onclose
\* raised.
C30_DisconnectReleases ==
  \A i \in { 1 } :
    (req[i].disconnected /\ req[i].transport.kind = "http"
       /\ req[i].failure = "none")
      ~> (req[i].transport.closed /\ req[i].ended = 1
            /\ req[i].oncloseCalls = 1)

\* -------------------------------------------------------------------- C31
\* C31: once a delegated POST /mcp has been answered, its session is gone:
\* the synthetic transport is closed (close has been called on it) and the
\* server instance has been told through onclose to detach.
C31_SessionTornDown ==
  \A i \in DOMAIN req :
    LET r == req[i] IN
    (r.transport.kind = "delegate" /\ r.reply # << >>) =>
      /\ r.transport.closed
      /\ r.closeCalls >= 1
      /\ r.oncloseCalls >= 1

\* -------------------------------------------------------------------- C32
\* C32: a message or an error that reaches a delegation's buffers leaves
\* the delegation waiting, with no outcome and no answer; and every
\* outcome chosen from the buffers was chosen when the timer fired, after
\* the whole deadline of the message's method.
C32_WaitNotShortened ==
  /\ [][\A i \in DOMAIN req :
          (\/ Len(req'[i].responseData) > Len(req[i].responseData)
           \/ Len(req'[i].errorData) > Len(req[i].errorData)) =>
            /\ req'[i].pc = "waiting"
            /\ req'[i].resolved = << >>
            /\ req'[i].reply = << >>
            /\ req'[i].waited = 0]_vars
  /\ [](\A i \in DOMAIN req :
          Resolved(req[i]) =>
            /\ req[i].waited = getTimeoutForMethod(req[i].message.method)
            /\ req[i].waited > 0)

\* The result of a tool call reached the buffer during the wait and was
\* returned when the 5000 ms had passed.
C32_Witness ==
  \E i \in DOMAIN req :
    /\ Resolved(req[i])
    /\ req[i].message.method = << "tools/call" >>
    /\ Len(req[i].responseData) = 1
    /\ req[i].responseData[1].kind = "result"
    /\ req[i].resolved = << Value(req[i].responseData[1]) >>
    /\ req[i].waited = 5000

\* -------------------------------------------------------------------- C33
\* The wait of delegation r has begun.
Waiting(r) == r.delivered # << >> /\ r.failure = "none"

\* C33: the deadline of a delegated message is a function of its method
\* alone; a tool call's is longer than that of tools/list and
\* prompts/list, theirs is longer than that of initialize, and no
\* message, with or without a method, has a deadline shorter than
\* initialize's or one that is not positive.
C33_DeadlineByMethod ==
  \A i \in DOMAIN req :
    LET r == req[i]
        method == r.message.method
        listing == { << "tools/list" >>, << "prompts/list" >> }
    IN Waiting(r) =>
         /\ r.timeout = getTimeoutForMethod(method)
         /\ r.timeout \in Nat /\ r.timeout > 0
         /\ r.timeout >= getTimeoutForMethod(<< "initialize" >>)
         /\ method = << "tools/call" >> =>
              \A l \in listing : r.timeout > getTimeoutForMethod(l)
         /\ method \in listing =>
              /\ r.timeout > getTimeoutForMethod(<< "initialize" >>)
              /\ r.timeout < getTimeoutForMethod(<< "tools/call" >>)
         /\ method = << "initialize" >> =>
              \A l \in listing : r.timeout < getTimeoutForMethod(l)

\* A message without a method was delegated and waited for as long as
\* initialize would have been.
C33_Witness ==
  \E i \in DOMAIN req :
    /\ Waiting(req[i])
    /\ req[i].message.method = Undefined
    /\ req[i].message.id = Str("7")
    /\ req[i].timeout = 1000
    /\ req[i].pc = "done"

\* -------------------------------------------------------------------- C34
\* C34: the message a delegated Request (a message with an id) is answered
\* with is a Response to it, a result or an error with the Request's id,
\* and never a notification or a request of the server instance; and the
\* outcome of a delegated Notification has no id.
C34_OutcomeCorrelates ==
  \A i \in DOMAIN req :
    LET r == req[i] IN
    (r.transport.kind = "delegate" /\ r.resolved # << >>) =>
      LET outcome == r.resolved[1] IN
      /\ (r.message.id # Undefined /\ ~outcome.null) =>
            /\ outcome.value.kind \in { "result", "null-result", "error" }
            /\ outcome.value.id = r.message.id
      /\ r.message.id = Undefined =>
            (outcome.null \/ outcome.value.id = Undefined)

\* -------------------------------------------------------------------- C35
\* The answers only authenticateWithOAuth gives once it has a Bearer
\* token.
FederatedRefusals ==
  { Reply(401, "Invalid or expired token"),
    Reply(400, "Organization not found in token or headers") }

\* C35: a request whose token passed the local verification of
\* authenticate is decided by the federated scheme alone: validatePAT is
\* never called for it and it never waits for it, an identity bound to it
\* is a federated one, and an answer it gets is one of the federated
\* scheme's refusals.
C35_SchemesExclusive ==
  \A i \in DOMAIN req :
    LET r == req[i] IN
    r.localVerify = "passed" =>
      /\ r.scheme = "oauth"
      /\ r.validateCalls = 0
      /\ r.downstream = << >>
      /\ r.pc # "validating"
      /\ \A identity \in r.auth : identity.type = "oauth"
      /\ \A k \in 1 .. Len(r.res) : r.res[k] \in FederatedRefusals

\* With the credential-token scheme enabled and the organization header
\* there, a token that passed the first verification was refused by the
\* federated scheme, and no validation followed.
C35_Witness ==
  \E i \in DOMAIN req :
    /\ config.patEnabled
    /\ req[i].localVerify = "passed"
    /\ Truthy(req[i].headers.xAdoOrganization)
    /\ req[i].res = << Reply(401, "Invalid or expired token") >>
    /\ req[i].validateCalls = 0
    /\ req[i].pc = "done"

\* -------------------------------------------------------------------- C36
\* C36: a request that has entered authenticate and is not waiting for
\* validatePAT has either been passed on by exactly one next() with
\* exactly one identity bound and no answer from the gateway, or been
\* answered by the gateway exactly once with no identity bound and no
\* next(); while it waits, none of these has happened; and an identity is
\* bound only once its scheme's validation has succeeded (validatePAT
\* returned true, or the session token passed verification).
C36_ExactlyOneOutcome ==
  \A i \in DOMAIN req :
    LET r == req[i] IN
    Entered(r) =>
      /\ r.pc = "validating" =>
           r.nextCalls = 0 /\ r.auth = {} /\ r.res = << >>
      /\ r.pc # "validating" =>
           \/ r.nextCalls = 1 /\ Cardinality(r.auth) = 1 /\ r.res = << >>
           \/ r.nextCalls = 0 /\ r.auth = {} /\ Len(r.res) = 1
      /\ \A identity \in r.auth :
           /\ identity.type = "pat" =>
                r.validateCalls = 1 /\ r.downstream = << "ok" >>
           /\ identity.type = "oauth" =>
                r.validateCalls = 0 /\ r.localVerify = "passed"

\* A request was refused, once, after validatePAT had returned false on
\* a 403 of the downstream API.
C36_Witness ==
  \E i \in DOMAIN req :
    /\ req[i].downstream = << "403" >>
    /\ req[i].auth = {}
    /\ req[i].nextCalls = 0
    /\ Len(req[i].res) = 1
    /\ req[i].res[1].status = 401

\* -------------------------------------------------------------------- C37
\* Request r is a POST /mcp that was passed on by the gateway and whose
\* handler did not hand it to handleMcpConnection.
PlainPost(r) == r.method = "POST" /\ HandlerRan(r) /\ ~r.upgrade

\* C37: a POST /mcp that was passed on and not made a stream has at most
\* one answer and, once its handler is done, exactly one, with a JSON body
\* or with status 204; a delegation has at most one outcome, exactly one
\* once the handler is done, reached without a wait or after the one wait
\* of its method; and every POST /mcp that was passed on is eventually
\* made a stream or answered.
C37_ExactlyOneAnswer ==
  /\ [](\A i \in DOMAIN req :
          LET r == req[i] IN
          PlainPost(r) =>
            /\ Len(r.reply) <= 1
            /\ r.pc = "done" <=> Len(r.reply) = 1
            /\ \A k \in 1 .. Len(r.reply) :
                 (r.reply[k].json = << >>) <=> (r.reply[k].status = 204)
            /\ r.written = << >> /\ r.ended = 0
            /\ Len(r.resolved) <= 1
            /\ r.transport.kind = "delegate" =>
                 /\ r.pc = "done" <=> Len(r.resolved) = 1
                 /\ r.waited \in { 0, r.timeout }
                 /\ r.failure \in { "none", "connect", "onmessage" })
  /\ \A i \in { 1 } :
       (req[i].method = "POST" /\ req[i].pc = "handler")
         ~> (req[i].upgrade \/ (req[i].pc = "done" /\ Len(req[i].reply) = 1))

\* A delegated notification to which the server instance said nothing was
\* answered with 204 after its wait.
C37_Witness ==
  \E i \in DOMAIN req :
    /\ PlainPost(req[i])
    /\ req[i].message.id = Undefined
    /\ req[i].responseData = << >>
    /\ req[i].resolved = << Null >>
    /\ req[i].reply = << NoContent >>
    /\ req[i].waited = 1000
    /\ req[i].pc = "done"

\* -------------------------------------------------------------------- C38
\* C38: no message is ever given to the server instance of a stream
\* session through onmessage, whether the stream was opened by a GET or
\* by a POST with a body, and so nothing the server instance hands to the
\* stream's transport, and nothing written to the stream's response, is a
\* result: it is a notification or a request of the server instance's
\* own.
C38_StreamOutboundOnly ==
  \A i \in DOMAIN req :
    LET r == req[i] IN
    r.transport.kind = "http" =>
      /\ r.delivered = << >>
      /\ r.responseData = << >> /\ r.errorData = << >>
      /\ r.timeout = 0 /\ r.resolved = << >>
      /\ \A k \in 1 .. Len(r.handed) :
           r.handed[k].message.kind \in { "notification", "request" }
      /\ \A k \in 1 .. Len(r.written) :
           r.written[k].data.kind \in { "notification", "request" }

\* A POST with a JSON body and 'Upgrade: sse' became a stream that has
\* carried two events, and its body was given to no server instance.
C38_Witness ==
  \E i \in DOMAIN req :
    /\ req[i].method = "POST"
    /\ req[i].body = "json"
    /\ req[i].upgrade
    /\ req[i].pc = "streaming"
    /\ Len(req[i].written) = 2
    /\ req[i].delivered = << >>

\* -------------------------------------------------------------------- C39
\* handleOAuthCallback has been called, was served, found OAuth configured
\* and was given a code.
CallbackWithCode ==
  /\ flow.pc \in { "exchanging", "done" }
  /\ ~flow.routed \/ config.oauthEnabled
  /\ config.oauthEnabled
  /\ Truthy(config.azureClientSecret) /\ Truthy(config.azureClientId)
  /\ Truthy(flow.query.code)

\* The headers of a request that presents `token` as its Bearer token,
\* with the organization header h.
Presenting(token, h) ==
  [ authorization |-> [ present |-> TRUE, prefix |-> "Bearer ",
                        rest |-> token ],
    xAdoOrganization |-> h ]

\* C39: a callback with a code and no state calls the token endpoint
\* once and, when the exchange succeeds, answers with a session token that
\* has no organization claim and with no organization in the body; the
\* gateway refuses that token at once when the organization header is
\* missing or empty and, while the token is valid, passes it on with the
\* header's organization when the header is there.  A callback with a
\* code and a state that is not JSON is answered 400 'Failed to exchange
\* authorization code' without a call of the token endpoint and without a
\* token.
C39_CallbackWithoutState ==
  CallbackWithCode =>
    /\ flow.query.state = Undefined =>
         /\ flow.tokenCalls = 1
         /\ flow.stateOrganization = Undefined
         /\ (/\ flow.pc = "done"
             /\ flow.tokenResponse[1].ok
             /\ Truthy(config.jwtSecret)) =>
              /\ Cardinality(flow.minted) = 1
              /\ \A token \in flow.minted :
                   /\ token.payload.organization = Undefined
                   /\ flow.res = << TokenBody(token,
                                              flow.tokenResponse[1].expires_in,
                                              Undefined) >>
                   /\ "organization" \notin DOMAIN flow.res[1].body
                   /\ \A h \in OrganizationHeaders :
                        LET out == authenticate(config, Presenting(token, h),
                                                now, now)
                        IN /\ ~Truthy(h) =>
                                ~out.next /\ ~out.await /\ out.auth = {}
                           /\ (Truthy(h)
                                 /\ jwtVerify(token, config.jwtSecret, now)) =>
                                /\ out.next
                                /\ \A identity \in out.auth :
                                     identity.organization = h
    /\ (Truthy(flow.query.state)
          /\ ~jsonParseOrganization(flow.query.state).ok) =>
         /\ flow.pc = "done"
         /\ flow.tokenCalls = 0
         /\ flow.tokenResponse = << >>
         /\ flow.minted = {}
         /\ flow.res
              = << ErrorBody(400, "Failed to exchange authorization code") >>

\* A callback with a code and no state was answered with a session token
\* that names no organization.
C39_Witness ==
  /\ CallbackWithCode
  /\ flow.query.state = Undefined
  /\ flow.pc = "done"
  /\ flow.tokenCalls = 1
  /\ \E token \in flow.minted : token.payload.organization = Undefined
  /\ flow.res # << >> /\ flow.res[1].status = 200

====
